---- MODULE Spec2Model ----
(***************************************************************************)
(* Offline-first synchronisation of the Cue task list with Google          *)
(* Calendar: the durable sync queue, the push (flushQueue) and pull        *)
(* (pullFromCalendar) algorithms of useSync, the remote adapter's result   *)
(* classification, and the task-store operations that enqueue work.        *)
(***************************************************************************)
EXTENDS Integers, Sequences, FiniteSets, TLC

\* ------------------------------------------------------------ constants
MAX_SYNC_RETRIES == 3

\* ------------------------------------------------------------ bounds
MaxTasks == 2     \* task identifiers handed out, pulled tasks included
MaxCreates == 1   \* of these, tasks the user creates
MaxItems == 2     \* queue items built
MaxEvents == 2    \* events the calendar has assigned an identifier
MaxVer == 1       \* edits of a task's content, local or in the calendar
MaxTime == 2      \* the clock's last value
MaxTimers == 2    \* auto-sync timeouts pending at once

VARIABLES
  tasks,        \* useTaskStore.tasks
  queue,        \* the durable sync queue, oldest first
  remote,       \* the events the remote calendar holds
  isOnline,     \* navigator.onLine / useSync.isOnline
  isSignedIn,   \* useAuth().isSignedIn
  googleConnected, \* hasGoogleConnected()
  syncSetting,  \* settings.syncWithGoogleCalendar
  pullAll,      \* settings.pullAllCalendarEvents
  isFlushing,   \* useSync.isFlushing.current
  hasSynced,    \* useSync.hasSyncedForCurrentOnlineSession.current
  timers,       \* pending auto-sync timeouts
  cyc,          \* the manual and the automatic sync cycle
  op,           \* the processAIActions invocation in flight
  now,          \* Date.now()
  ctr,          \* identifiers handed out so far
  autoRuns      \* auto-sync cycles started since the state last became
                \* online and permitted (history, read by no action)

vars == <<tasks, queue, remote, isOnline, isSignedIn, googleConnected,
          syncSetting, pullAll, isFlushing, hasSynced, timers, cyc, op,
          now, ctr, autoRuns>>

Cycles == {"manual", "auto"}

\* ------------------------------------------------------------ helpers
\* findIndex: the first index whose element passes, 0 when none does
FindIndex(s, Test(_)) ==
  IF \E i \in 1..Len(s) : Test(s[i])
    THEN CHOOSE i \in 1..Len(s) : Test(s[i]) /\ \A j \in 1..(i-1) : ~Test(s[j])
    ELSE 0

TaskIds(ts) == {ts[i].id : i \in 1..Len(ts)}

\* ------------------------------------------------------------ permission
canSync == isSignedIn /\ googleConnected /\ syncSetting

canGoogleSync == syncSetting /\ isSignedIn /\ googleConnected

\* ------------------------------------------------------------ remote adapter
RETRYABLE_STATUS_CODES == {408, 425, 429, 500, 502, 503, 504}

isRetryableStatusCode(status) == status \in RETRYABLE_STATUS_CODES

\* no message counts as permanent
isPermanentNever(message) == FALSE

\* the message, lower-cased, includes "cannot be changed" or "not found"
isPermanentGoogleError(message) ==
  message \in {"Event type cannot be changed", "Not Found"}

Statuses == {200, 400, 404, 410, 503}
Messages == {"Failed", "Not Found", "Event type cannot be changed"}

\* what one remote call can meet: an HTTP response, a network exception
\* (fetch throws), a failed token acquisition (getGoogleToken gives null) or
\* an account that is not connected (hasGoogleConnected gives false)
Responses ==
  [kind : {"http"}, status : Statuses, message : Messages]
    \cup {[kind |-> "network", status |-> 0, message |-> "Failed"],
          [kind |-> "noToken", status |-> 0, message |-> "none"],
          [kind |-> "notConnected", status |-> 0, message |-> "none"]}

\* no remote call is made
NoCall == [kind |-> "none", status |-> 0, message |-> "none"]

Failure(retryable, message) ==
  [success |-> FALSE, retryable |-> retryable, eventId |-> 0, message |-> message]

Success(eventId) ==
  [success |-> TRUE, retryable |-> FALSE, eventId |-> eventId, message |-> ""]

\* createEvent / updateEvent giving up on a network exception
SyncResultNetworkFatal(resp, eventId) ==
  CASE resp.kind = "notConnected" -> Failure(FALSE, "Google account not connected")
    [] resp.kind = "noToken" ->
         Failure(FALSE, "Failed to get Google Calendar token")
    [] resp.kind = "network" -> Failure(FALSE, resp.message)
    [] resp.status = 200 -> Success(eventId)
    [] OTHER ->
         Failure(isRetryableStatusCode(resp.status)
                   /\ ~isPermanentGoogleError(resp.message), resp.message)

\* createEvent / updateEvent answering a missing token like a network failure
SyncResultTokenRetry(resp, eventId) ==
  CASE resp.kind = "notConnected" -> Failure(FALSE, "Google account not connected")
    [] resp.kind \in {"noToken", "network"} -> Failure(TRUE, resp.message)
    [] resp.status = 200 -> Success(eventId)
    [] OTHER ->
         Failure(isRetryableStatusCode(resp.status)
                   /\ ~isPermanentGoogleError(resp.message), resp.message)

\* createEvent / updateEvent: the GoogleSyncResult of a response
SyncResult(resp, eventId) ==
  CASE resp.kind = "notConnected" -> Failure(FALSE, "Google account not connected")
    [] resp.kind = "noToken" ->
         Failure(FALSE, "Failed to get Google Calendar token")
    [] resp.kind = "network" -> Failure(TRUE, resp.message)
    [] resp.status = 200 -> Success(eventId)
    [] OTHER ->
         Failure(isRetryableStatusCode(resp.status)
                   /\ ~isPermanentGoogleError(resp.message), resp.message)

\* deleteEvent with 200 as its only success
DeleteResultStrict(resp) ==
  CASE resp.kind = "notConnected" -> Failure(FALSE, "Google account not connected")
    [] resp.kind = "noToken" ->
         Failure(FALSE, "Failed to get Google Calendar token")
    [] resp.kind = "network" -> Failure(TRUE, resp.message)
    [] resp.status = 200 -> Success(0)
    [] OTHER ->
         Failure(isRetryableStatusCode(resp.status)
                   /\ ~isPermanentGoogleError(resp.message), resp.message)

\* deleteEvent: 404 and 410 count as done
DeleteResult(resp) ==
  CASE resp.kind = "notConnected" -> Failure(FALSE, "Google account not connected")
    [] resp.kind = "noToken" ->
         Failure(FALSE, "Failed to get Google Calendar token")
    [] resp.kind = "network" -> Failure(TRUE, resp.message)
    [] resp.status \in {200, 404, 410} -> Success(0)
    [] OTHER ->
         Failure(isRetryableStatusCode(resp.status)
                   /\ ~isPermanentGoogleError(resp.message), resp.message)

\* ------------------------------------------------------------ task <-> event
\* A text is a sequence of tokens: words, the markers, an encoded priority,
\* and NL for the blank line that joins the parts of an event's description.
CUE_MARKER == "[cue]"
CUE_DONE_MARKER == "[done]"
NL == "NL"

Priorities == {"high", "medium", "low"}

\* `Priority: ${priority}`
PriorityLine(priority) ==
  CASE priority = "high" -> "Priority: high"
    [] priority = "medium" -> "Priority: medium"
    [] OTHER -> "Priority: low"

\* descriptionParts.join("\n\n")
RECURSIVE Join(_)
Join(parts) ==
  IF Len(parts) = 0 THEN <<>>
  ELSE IF Len(parts) = 1 THEN parts[1]
  ELSE parts[1] \o <<NL>> \o Join(Tail(parts))

\* String.prototype.replace(token, ""): the first occurrence goes
Replace(text, token) ==
  LET at == FindIndex(text, LAMBDA x : x = token) IN
    IF at = 0 THEN text
    ELSE SubSeq(text, 1, at - 1) \o SubSeq(text, at + 1, Len(text))

\* a trim that leaves the text as it is
TrimNone(text) == text

\* String.prototype.trim
RECURSIVE Trim(_)
Trim(text) ==
  IF text = <<>> THEN text
  ELSE IF Head(text) = NL THEN Trim(Tail(text))
  ELSE IF text[Len(text)] = NL THEN Trim(SubSeq(text, 1, Len(text) - 1))
  ELSE text

\* description.includes(token)
Includes(text, token) == \E i \in 1..Len(text) : text[i] = token

\* /^Priority:\s*(high|medium|low)/i: the priority the text starts with
PriorityMatch(text) ==
  IF text # <<>> /\ \E p \in Priorities : text[1] = PriorityLine(p)
    THEN <<CHOOSE p \in Priorities : text[1] = PriorityLine(p)>>
    ELSE <<>>

MinutesPerDay == 1440

\* a Date is an instant in minutes; timezone is the offset of local time
\* from UTC in minutes. toISOString().split("T")[0]: the UTC date
UtcDate(instant) == instant \div MinutesPerDay

\* the Date of local day, hours and minutes
LocalDate(day, hours, minutes, timezone) ==
  day * MinutesPerDay + hours * 60 + minutes - timezone

\* getDate / getHours / getMinutes
LocalDay(instant, timezone) == (instant + timezone) \div MinutesPerDay
LocalHours(instant, timezone) == ((instant + timezone) % MinutesPerDay) \div 60
LocalMinutes(instant, timezone) == (instant + timezone) % 60

\* taskToEvent: the description and the start and end of the event
taskToEvent(task, timezone) ==
  LET descriptionParts ==
        (IF task.priority # "none" THEN <<<<PriorityLine(task.priority)>>>> ELSE <<>>)
          \o (IF task.description # <<>> THEN <<task.description>> ELSE <<>>)
          \o (IF task.completed THEN <<<<CUE_DONE_MARKER>>>> ELSE <<>>)
          \o <<<<CUE_MARKER>>>>
      description == Join(descriptionParts)
  IN IF task.scheduled_time # <<>>
       THEN LET startDateTime ==
                  LocalDate(LocalDay(task.date, timezone), task.scheduled_time[1],
                            task.scheduled_time[2], timezone)
            IN [description |-> description, allDay |-> FALSE,
                start |-> startDateTime, end |-> startDateTime + 60]
       ELSE [description |-> description, allDay |-> TRUE,
             start |-> UtcDate(task.date),
             end |-> UtcDate(task.date + MinutesPerDay)]

\* eventToTask: the task fields read from the description and the start
eventToTaskFields(event, timezone) ==
  LET cleanDesc == Trim(Replace(Replace(event.description, CUE_MARKER),
                                CUE_DONE_MARKER))
      priorityMatch == PriorityMatch(cleanDesc)
      taskDescription ==
        IF priorityMatch # <<>> THEN Trim(Tail(cleanDesc)) ELSE cleanDesc
  IN [priority |-> IF priorityMatch # <<>> THEN priorityMatch[1] ELSE "none",
      description |-> taskDescription,
      completed |-> Includes(event.description, CUE_DONE_MARKER),
      date |-> IF event.allDay THEN LocalDate(event.start, 0, 0, timezone)
               ELSE event.start,
      scheduled_time |->
        IF event.allDay THEN <<>>
        ELSE <<LocalHours(event.start, timezone), LocalMinutes(event.start, timezone)>>]

\* ------------------------------------------------------------ the remote calendar
Live(eventId) == \E e \in remote : e.id = eventId /\ ~e.cancelled

\* The responses a call can meet. Its callers take the adapter of a render
\* in which the account was connected, so the adapter's own test passes; when
\* the session or the connection has gone since, no token is to be had.
\* Offline, the request for the token or the call itself throws. With a
\* token the service answers 200 only to a call it carries out, 404 and 410
\* only for an event it does not hold (any more).
ServerResponses(kind, eventId) ==
  {r \in Responses :
     IF ~(isSignedIn /\ googleConnected) THEN r.kind = "noToken" ELSE
     IF ~isOnline THEN r.kind \in {"noToken", "network"} ELSE
     \/ r.kind \in {"network", "noToken"}
     \/ /\ r.status = 200
        /\ (kind = "create" \/ Live(eventId))
        /\ (kind # "create" \/ ctr.event < MaxEvents)
        /\ r.message = "Failed"
     \/ /\ r.status \in {404, 410}
        /\ kind # "create"
        /\ ~Live(eventId)
        /\ r.message = "Not Found"
     \/ r.status = 400 /\ r.message = "Failed"
     \/ r.status = 503 /\ r.message # "Not Found"}

\* taskToEvent, then the service stores the event
NewEvent(task) ==
  [id |-> ctr.event + 1, ver |-> task.ver, completed |-> task.completed,
   updated |-> now, marked |-> TRUE, cancelled |-> FALSE, forTask |-> task.id]

\* the remote calendar after a call that met response resp
RemoteAfter(kind, task, eventId, resp) ==
  IF resp.kind = "http" /\ resp.status = 200
    THEN CASE kind = "create" -> remote \cup {NewEvent(task)}
           [] kind = "update" ->
                {IF e.id = eventId
                   THEN [e EXCEPT !.ver = task.ver, !.completed = task.completed,
                                  !.updated = now, !.marked = TRUE]
                   ELSE e : e \in remote}
           [] OTHER ->
                {IF e.id = eventId THEN [e EXCEPT !.cancelled = TRUE] ELSE e
                   : e \in remote}
    ELSE remote

CtrAfter(kind, resp) ==
  IF kind = "create" /\ resp.kind = "http" /\ resp.status = 200
    THEN [ctr EXCEPT !.event = @ + 1]
    ELSE ctr

\* ------------------------------------------------------------ the durable queue
getSyncQueue == queue

\* append-or-replace: the pending item of the same task, if any, gives way
addOrReplaceSyncQueueItem(q, item) ==
  Append(SelectSeq(q, LAMBDA x : x.taskId # item.taskId), item)

removeSyncQueueItem(q, id) == SelectSeq(q, LAMBDA x : x.id # id)

\* update: the named item's retry metadata; no item of that id, no change
updateSyncQueueItem(q, id, retryCount, lastError, timestamp) ==
  [i \in 1..Len(q) |->
     IF q[i].id = id
       THEN [q[i] EXCEPT !.retryCount = retryCount, !.lastError = lastError,
                         !.timestamp = timestamp]
       ELSE q[i]]

\* a queue item that starts with one failure counted
QueueItemRetried(operation, taskId, taskData, gcalEventId) ==
  [id |-> ctr.item + 1, operation |-> operation, taskId |-> taskId,
   taskData |-> taskData, gcalEventId |-> gcalEventId, timestamp |-> now,
   retryCount |-> 1, lastError |-> ""]

\* a fresh queue item as syncCreate / syncUpdate / syncDelete build it
QueueItem(operation, taskId, taskData, gcalEventId) ==
  [id |-> ctr.item + 1, operation |-> operation, taskId |-> taskId,
   taskData |-> taskData, gcalEventId |-> gcalEventId, timestamp |-> now,
   retryCount |-> 0, lastError |-> ""]

ItemsOf(q, taskId) == {i \in 1..Len(q) : q[i].taskId = taskId}

\* ------------------------------------------------------------ a sync cycle
UnknownFailure == Failure(TRUE, "Unknown sync failure")

Zeros == [processed |-> 0, retrying |-> 0, dropped |-> 0]

\* resp is what the cycle's last remote call met; flushed and pulled hold
\* what flushQueue and pullFromCalendar have returned to the cycle
IdleCycle ==
  [pc |-> "idle", snap |-> <<>>, idx |-> 0, updatedTasks |-> <<>>,
   result |-> UnknownFailure, counts |-> Zeros, events |-> <<>>,
   pullAll |-> FALSE, busy |-> FALSE, flushed |-> <<>>, resp |-> NoCall,
   pulled |-> <<>>]

FlushPcs == {"getQueue", "item", "refresh"}

\* pullFromCalendar entered without the test of the permission
AfterFlushUnchecked(rec) ==
  [IdleCycle EXCEPT !.pc = "fetch", !.pullAll = pullAll,
                    !.busy = rec.busy, !.flushed = <<rec.counts>>]

\* syncNow / the auto-sync callback after `await flushQueue()`: pullFromCalendar
\* runs up to its first await; it returns 0 at once when sync is not permitted
AfterFlush(rec) ==
  IF canSync
    THEN [IdleCycle EXCEPT !.pc = "fetch", !.pullAll = pullAll,
                           !.busy = rec.busy, !.flushed = <<rec.counts>>]
    ELSE [IdleCycle EXCEPT !.pc = "finish", !.busy = rec.busy,
                           !.flushed = <<rec.counts>>, !.pulled = <<0>>]

\* flushQueue entered without the test of the in-progress flag
FlushEntryUnguarded(c) ==
  IF ~canSync
    THEN /\ cyc' = [cyc EXCEPT ![c] = AfterFlush([IdleCycle EXCEPT !.busy = isFlushing])]
         /\ UNCHANGED isFlushing
    ELSE /\ isFlushing' = TRUE
         /\ cyc' = [cyc EXCEPT ![c] = [IdleCycle EXCEPT !.pc = "getQueue"]]

\* flushQueue up to its first await
FlushEntry(c) ==
  IF isFlushing \/ ~canSync
    THEN /\ cyc' = [cyc EXCEPT ![c] = AfterFlush([IdleCycle EXCEPT !.busy = isFlushing])]
         /\ UNCHANGED isFlushing
    ELSE /\ isFlushing' = TRUE
         /\ cyc' = [cyc EXCEPT ![c] = [IdleCycle EXCEPT !.pc = "getQueue"]]

\* flushQueue: getSyncQueue has answered; an empty queue ends the flush
FlushGetQueue(c) ==
  /\ cyc[c].pc = "getQueue"
  /\ IF getSyncQueue = <<>>
       THEN /\ isFlushing' = FALSE
            /\ cyc' = [cyc EXCEPT ![c] = AfterFlush(cyc[c])]
       ELSE /\ cyc' = [cyc EXCEPT ![c].pc = "item", ![c].snap = getSyncQueue,
                                  ![c].idx = 1, ![c].updatedTasks = tasks]
            /\ UNCHANGED isFlushing
  /\ UNCHANGED <<tasks, queue, remote, isOnline, isSignedIn, googleConnected,
                 syncSetting, pullAll, hasSynced, timers, op, now, ctr,
                 autoRuns>>

\* only a create without snapshot is counted as done without a call
VacuousCreateOnly(item) ==
  item.operation = "create" /\ item.taskData = <<>>

\* getSyncQueue throws and the flag stays set
FlushGetQueueThrowsFlagKept(c) ==
  /\ cyc[c].pc = "getQueue"
  /\ cyc' = [cyc EXCEPT ![c] = [IdleCycle EXCEPT !.pc = "finish"]]
  /\ UNCHANGED <<tasks, queue, remote, isOnline, isSignedIn, googleConnected,
                 syncSetting, pullAll, isFlushing, hasSynced, timers, op, now,
                 ctr, autoRuns>>

\* flushQueue: getSyncQueue throws; `finally` clears the flag and the
\* exception ends the trigger's try: no pull, the trigger's `finally` is next
FlushGetQueueThrows(c) ==
  /\ cyc[c].pc = "getQueue"
  /\ isFlushing' = FALSE
  /\ cyc' = [cyc EXCEPT ![c] = [IdleCycle EXCEPT !.pc = "finish"]]
  /\ UNCHANGED <<tasks, queue, remote, isOnline, isSignedIn, googleConnected,
                 syncSetting, pullAll, hasSynced, timers, op, now, ctr,
                 autoRuns>>

\* an item the flush counts as done without a remote call
Vacuous(item) ==
  CASE item.operation = "create" -> item.taskData = <<>>
    [] item.operation = "update" -> item.taskData = <<>> \/ item.gcalEventId = 0
    [] OTHER -> item.gcalEventId = 0

\* the GoogleSyncResult of the remote call a queue item stands for
ItemResult(item, resp) ==
  CASE item.operation = "create" -> SyncResult(resp, ctr.event + 1)
    [] item.operation = "update" -> SyncResult(resp, 0)
    [] OTHER -> DeleteResult(resp)

\* the identifier recorded without the mirrored flag
WithEventIdOnly(ts, taskId, eventId) ==
  LET idx == FindIndex(ts, LAMBDA t : t.id = taskId) IN
    IF idx # 0
      THEN [ts EXCEPT ![idx] = [@ EXCEPT !.gcalEventId = eventId]]
      ELSE ts

\* a successful create records the event identifier on the flush's copy
WithEventId(ts, taskId, eventId) ==
  LET idx == FindIndex(ts, LAMBDA t : t.id = taskId) IN
    IF idx # 0
      THEN [ts EXCEPT ![idx] = [@ EXCEPT !.gcalEventId = eventId,
                                         !.syncedWithGCal = TRUE]]
      ELSE ts

\* the ceiling test with > in place of >=
ShouldDropAbove(item, result) ==
  ~result.retryable \/ item.retryCount + 1 > MAX_SYNC_RETRIES

\* the drop test without the retryable flag
ShouldDropAtCeiling(item, result) ==
  item.retryCount + 1 >= MAX_SYNC_RETRIES

\* whether a failed item leaves the queue instead of waiting for a retry
ShouldDrop(item, result) ==
  ~result.retryable \/ item.retryCount + 1 >= MAX_SYNC_RETRIES

\* the write that follows a result, addressed by task instead of by item
QueueAfterByTask(q, item, result) ==
  IF result.success \/ ShouldDrop(item, result)
    THEN SelectSeq(q, LAMBDA x : x.taskId # item.taskId)
    ELSE [i \in 1..Len(q) |->
            IF q[i].taskId = item.taskId
              THEN [q[i] EXCEPT !.retryCount = item.retryCount + 1,
                                !.lastError = result.message,
                                !.timestamp = now]
              ELSE q[i]]

\* a retry that is not counted on the item
QueueAfterSameCount(q, item, result) ==
  IF result.success \/ ShouldDrop(item, result)
    THEN removeSyncQueueItem(q, item.id)
    ELSE updateSyncQueueItem(q, item.id, item.retryCount, result.message, now)

\* the queue after the write that follows an item's result
QueueAfter(q, item, result) ==
  IF result.success \/ ShouldDrop(item, result)
    THEN removeSyncQueueItem(q, item.id)
    ELSE updateSyncQueueItem(q, item.id, item.retryCount + 1, result.message, now)

\* the cycle after one item of the snapshot, result r, has been handled
CycleAfterItem(rec, item, resp, r) ==
  LET last == rec.idx = Len(rec.snap)
      drop == ~r.success /\ ShouldDrop(item, r)
  IN [rec EXCEPT
        !.pc = IF last THEN "refresh" ELSE "item",
        !.idx = IF last THEN @ ELSE @ + 1,
        !.result = r,
        !.resp = resp,
        !.counts.processed = @ + (IF r.success THEN 1 ELSE 0),
        !.counts.dropped = @ + (IF drop THEN 1 ELSE 0),
        !.counts.retrying = @ + (IF ~r.success /\ ~drop THEN 1 ELSE 0),
        !.updatedTasks =
           IF item.operation = "create" /\ item.taskData # <<>>
                /\ r.success /\ r.eventId # 0
             THEN WithEventId(@, item.taskId, r.eventId)
             ELSE @]

\* flushQueue: one item of the snapshot: the remote call, the queue write
\* that follows its result and, after the last item, the batch update of
\* the task list
FlushItem(c) ==
  /\ cyc[c].pc = "item"
  /\ LET item == cyc[c].snap[cyc[c].idx] IN
     \E resp \in (IF Vacuous(item) THEN {NoCall}
                  ELSE ServerResponses(item.operation, item.gcalEventId)) :
       LET task == IF item.taskData = <<>> THEN item ELSE item.taskData[1]
           r == IF Vacuous(item) THEN Success(0) ELSE ItemResult(item, resp)
           after == CycleAfterItem(cyc[c], item, resp, r)
       IN /\ remote' = RemoteAfter(item.operation, task, item.gcalEventId, resp)
          /\ ctr' = CtrAfter(item.operation, resp)
          /\ queue' = QueueAfter(queue, item, r)
          /\ cyc' = [cyc EXCEPT ![c] = after]
          /\ tasks' = IF after.pc = "refresh" /\ after.counts.processed > 0
                        THEN after.updatedTasks
                        ELSE tasks
  /\ UNCHANGED <<isOnline, isSignedIn, googleConnected, syncSetting, pullAll,
                 isFlushing, hasSynced, timers, op, now, autoRuns>>

\* the flush gives up at the item whose queue write threw
CycleAfterThrowAborts(rec, item, resp, r) ==
  [rec EXCEPT !.pc = "refresh", !.result = r, !.resp = resp]

\* the cycle after the queue write for one item has thrown: the catch of the
\* loop body logs, nothing is counted and the loop goes on
CycleAfterThrow(rec, item, resp, r) ==
  [CycleAfterItem(rec, item, resp, r) EXCEPT !.counts = rec.counts]

\* flushQueue: one item of the snapshot whose queue write (removeSyncQueueItem
\* or updateSyncQueueItem) throws after the remote call: the queue is left as
\* it was
FlushItemThrows(c) ==
  /\ cyc[c].pc = "item"
  /\ LET item == cyc[c].snap[cyc[c].idx] IN
     \E resp \in (IF Vacuous(item) THEN {NoCall}
                  ELSE ServerResponses(item.operation, item.gcalEventId)) :
       LET task == IF item.taskData = <<>> THEN item ELSE item.taskData[1]
           r == IF Vacuous(item) THEN Success(0) ELSE ItemResult(item, resp)
           after == CycleAfterThrow(cyc[c], item, resp, r)
       IN /\ remote' = RemoteAfter(item.operation, task, item.gcalEventId, resp)
          /\ ctr' = CtrAfter(item.operation, resp)
          /\ cyc' = [cyc EXCEPT ![c] = after]
          /\ tasks' = IF after.pc = "refresh" /\ after.counts.processed > 0
                        THEN after.updatedTasks
                        ELSE tasks
  /\ UNCHANGED <<queue, isOnline, isSignedIn, googleConnected, syncSetting,
                 pullAll, isFlushing, hasSynced, timers, op, now, autoRuns>>

\* flushQueue: refreshPendingCount has answered; finally clears the flag and
\* the counts go back to the cycle
FlushReturn(c) ==
  /\ cyc[c].pc = "refresh"
  /\ isFlushing' = FALSE
  /\ cyc' = [cyc EXCEPT ![c] = AfterFlush(cyc[c])]
  /\ UNCHANGED <<tasks, queue, remote, isOnline, isSignedIn, googleConnected,
                 syncSetting, pullAll, hasSynced, timers, op, now, ctr,
                 autoRuns>>

\* ------------------------------------------------------------ pull
\* a set of events as a sequence, in the order of the listing
RECURSIVE Listing(_)
Listing(S) ==
  IF S = {} THEN <<>>
  ELSE LET e == CHOOSE x \in S : \A y \in S : x.id <= y.id
       IN <<e>> \o Listing(S \ {e})

\* eventToTask: the task fields read from a remote event; an event without
\* `updated` (0) gets the time of the reading
eventToTask(e) ==
  [ver |-> e.ver, completed |-> e.completed, gcalEventId |-> e.id,
   gcalUpdated |-> IF e.updated = 0 THEN now ELSE e.updated,
   created_at |-> now,
   updated_at |-> IF e.updated = 0 THEN now ELSE e.updated]

\* the listing without the test of the status
fetchEventsAnyStatus(all) ==
  LET filtered == IF all THEN remote ELSE {e \in remote : e.marked}
      listed == Listing(filtered)
  IN [i \in 1..Len(listed) |-> eventToTask(listed[i])]

\* fetchEvents: the events of the listing that carry the marker (all of them
\* under pullAll) and are not cancelled, as tasks
fetchEvents(all) ==
  LET filtered == IF all THEN remote ELSE {e \in remote : e.marked}
      listed == Listing({e \in filtered : ~e.cancelled})
  IN [i \in 1..Len(listed) |-> eventToTask(listed[i])]

\* a pulled task marked mirrored without the event's identifier
PulledTaskUnlinked(id, r) ==
  [id |-> id, ver |-> r.ver, completed |-> r.completed,
   gcalEventId |-> 0, syncedWithGCal |-> TRUE,
   created_at |-> r.created_at, updated_at |-> r.updated_at,
   origin |-> "pulled"]

\* a pulled task stamped with the time of the pull
PulledTaskStamped(id, r) ==
  [id |-> id, ver |-> r.ver, completed |-> r.completed,
   gcalEventId |-> r.gcalEventId, syncedWithGCal |-> TRUE,
   created_at |-> r.created_at, updated_at |-> now, origin |-> "pulled"]

\* the local task a pull builds for an event no task is linked to
PulledTask(id, r) ==
  [id |-> id, ver |-> r.ver, completed |-> r.completed,
   gcalEventId |-> r.gcalEventId, syncedWithGCal |-> TRUE,
   created_at |-> r.created_at, updated_at |-> r.updated_at,
   origin |-> "pulled"]

\* the comparison with >= in place of >
RemoteNewerOrSame(local, r) == r.gcalUpdated >= local.updated_at

\* remoteUpdated > localUpdated, a task without updated_at counting as 0
RemoteIsNewer(local, r) == r.gcalUpdated > local.updated_at

\* the matched task takes the creation time of the reading as well
OverwriteRecreated(local, r) ==
  IF RemoteIsNewer(local, r)
    THEN [local EXCEPT !.ver = r.ver, !.completed = r.completed,
                       !.created_at = r.created_at,
                       !.updated_at = r.gcalUpdated]
    ELSE local

\* the overwrite that keeps the task's own last-modified time
OverwriteKeepsTime(local, r) ==
  IF RemoteIsNewer(local, r)
    THEN [local EXCEPT !.ver = r.ver, !.completed = r.completed]
    ELSE local

\* the matched task under the remote version, last writer wins
Overwrite(local, r) ==
  IF RemoteIsNewer(local, r)
    THEN [local EXCEPT !.ver = r.ver, !.completed = r.completed,
                       !.updated_at = r.gcalUpdated]
    ELSE local

\* pullFromCalendar's loop over the fetched events, from event i on;
\* acc = [ts: updatedTasks, count: changeCount, next: identifiers handed out]
RECURSIVE Merge(_, _, _)
Merge(acc, evs, i) ==
  IF i > Len(evs) THEN acc
  ELSE LET r == evs[i]
           localIdx == FindIndex(acc.ts, LAMBDA t : t.gcalEventId = r.gcalEventId)
       IN IF localIdx # 0
            THEN LET merged == Overwrite(acc.ts[localIdx], r) IN
                   Merge([acc EXCEPT !.ts[localIdx] = merged,
                                     !.count = @ + (IF RemoteIsNewer(acc.ts[localIdx], r)
                                                      THEN 1 ELSE 0)],
                         evs, i + 1)
            ELSE Merge([ts |-> Append(acc.ts, PulledTask(acc.next + 1, r)),
                        count |-> acc.count + 1, next |-> acc.next + 1],
                       evs, i + 1)

\* the task list rebuilt from the listing alone
PullResultOfListing(ts, evs) ==
  Merge([ts |-> <<>>, count |-> 0, next |-> ctr.task], evs, 1)

\* the loop started on a copy of the current task list
PullResult(ts, evs) == Merge([ts |-> ts, count |-> 0, next |-> ctr.task], evs, 1)

\* what the listing call can meet
ListResponses ==
  {r \in Responses :
     IF ~(isSignedIn /\ googleConnected) THEN r.kind = "noToken" ELSE
     IF ~isOnline THEN r.kind \in {"noToken", "network"} ELSE
     \/ r.kind \in {"network", "noToken"}
     \/ r.status \in {200, 503} /\ r.message = "Failed"}

\* fetchEvents as the caller sees it: the listing of a 200 answer, and []
\* for every failure
FetchResult(resp, all) ==
  IF resp.kind = "http" /\ resp.status = 200 THEN fetchEvents(all) ELSE <<>>

\* the cycle once pullFromCalendar has returned n: the `finally` of the trigger
Finishing(rec, n) ==
  [IdleCycle EXCEPT !.pc = "finish", !.busy = rec.busy, !.flushed = rec.flushed,
                    !.resp = rec.resp, !.pulled = <<n>>]

\* pullFromCalendar: the listing call has answered; nothing fetched ends the
\* pull with 0
PullFetch(c) ==
  /\ cyc[c].pc = "fetch"
  /\ \E resp \in ListResponses :
       LET evs == FetchResult(resp, cyc[c].pullAll) IN
         cyc' = [cyc EXCEPT ![c] =
                   IF evs = <<>> THEN Finishing([@ EXCEPT !.resp = resp], 0)
                   ELSE [@ EXCEPT !.pc = "merge", !.events = evs, !.resp = resp]]
  /\ UNCHANGED <<tasks, queue, remote, isOnline, isSignedIn, googleConnected,
                 syncSetting, pullAll, isFlushing, hasSynced, timers, op, now,
                 ctr, autoRuns>>

\* pullFromCalendar: the fetched events are merged into the task list
PullMerge(c) ==
  /\ cyc[c].pc = "merge"
  /\ LET res == PullResult(tasks, cyc[c].events) IN
       /\ res.next <= MaxTasks
       /\ tasks' = IF res.count > 0 THEN res.ts ELSE tasks
       /\ ctr' = [ctr EXCEPT !.task = res.next]
       /\ cyc' = [cyc EXCEPT ![c] = Finishing(@, res.count)]
  /\ UNCHANGED <<queue, remote, isOnline, isSignedIn, googleConnected,
                 syncSetting, pullAll, isFlushing, hasSynced, timers, op, now,
                 autoRuns>>

\* the trigger's `finally`: refreshPendingCount has answered, the cycle is over
CycleFinish(c) ==
  /\ cyc[c].pc = "finish"
  /\ cyc' = [cyc EXCEPT ![c] = IdleCycle]
  /\ UNCHANGED <<tasks, queue, remote, isOnline, isSignedIn, googleConnected,
                 syncSetting, pullAll, isFlushing, hasSynced, timers, op, now,
                 ctr, autoRuns>>

\* ------------------------------------------------------------ triggers
\* syncNow starting the pull without awaiting the flush
SyncNowPullFirst ==
  /\ cyc["manual"].pc = "idle"
  /\ isOnline /\ canSync
  /\ cyc' = [cyc EXCEPT !["manual"] = [IdleCycle EXCEPT !.pc = "fetch",
                                                        !.pullAll = pullAll]]
  /\ UNCHANGED <<tasks, queue, remote, isOnline, isSignedIn, googleConnected,
                 syncSetting, pullAll, isFlushing, hasSynced, timers, op, now,
                 ctr, autoRuns>>

\* syncNow: refused offline or without permission, else flush, then pull
SyncNow ==
  /\ cyc["manual"].pc = "idle"
  /\ isOnline /\ canSync
  /\ FlushEntry("manual")
  /\ UNCHANGED <<tasks, queue, remote, isOnline, isSignedIn, googleConnected,
                 syncSetting, pullAll, hasSynced, timers, op, now, ctr,
                 autoRuns>>

\* the auto-sync timeout fires: flush, then pull
AutoSync ==
  /\ timers > 0
  /\ cyc["auto"].pc = "idle"
  /\ timers' = timers - 1
  /\ autoRuns' = autoRuns + 1
  /\ FlushEntry("auto")
  /\ UNCHANGED <<tasks, queue, remote, isOnline, isSignedIn, googleConnected,
                 syncSetting, pullAll, hasSynced, op, now, ctr>>

\* a cleanup that leaves the timeout pending
clearTimeoutKeeps(pending) == pending

\* the cleanup the auto-sync effect returns: clearTimeout
clearTimeout(pending) == 0

\* an effect that sets no timeout on entry
EffectTimersUnarmed(online, permitted) == clearTimeout(timers)

\* the auto-sync effect, run when isOnline or canSync has changed to
\* (online, permitted), after the cleanup of its previous run: the timeouts
\* pending afterwards, and the flag
EffectTimers(online, permitted) ==
  clearTimeout(timers) + (IF online /\ permitted /\ ~hasSynced THEN 1 ELSE 0)

EffectHasSynced(online, permitted) ==
  IF ~online \/ ~permitted THEN FALSE ELSE TRUE

\* a render with isOnline = online and canSync = permitted: the auto-sync
\* effect runs again when one of the two has changed
Effect(online, permitted) ==
  IF online = isOnline /\ permitted = canSync
    THEN UNCHANGED <<timers, hasSynced, autoRuns>>
    ELSE /\ EffectTimers(online, permitted) <= MaxTimers
         /\ timers' = EffectTimers(online, permitted)
         /\ hasSynced' = EffectHasSynced(online, permitted)
         /\ autoRuns' = 0

\* the browser's online / offline event
SetOnline(online) ==
  /\ isOnline # online
  /\ isOnline' = online
  /\ Effect(online, canSync)
  /\ UNCHANGED <<tasks, queue, remote, isSignedIn, googleConnected, syncSetting,
                 pullAll, isFlushing, cyc, op, now, ctr>>

\* the user switches settings.syncWithGoogleCalendar
SetSyncSetting(enabled) ==
  /\ syncSetting # enabled
  /\ syncSetting' = enabled
  /\ Effect(isOnline, isSignedIn /\ googleConnected /\ enabled)
  /\ UNCHANGED <<tasks, queue, remote, isOnline, isSignedIn, googleConnected,
                 pullAll, isFlushing, cyc, op, now, ctr>>

\* the user signs in or out
SetSignedIn(signedIn) ==
  /\ isSignedIn # signedIn
  /\ isSignedIn' = signedIn
  /\ Effect(isOnline, signedIn /\ googleConnected /\ syncSetting)
  /\ UNCHANGED <<tasks, queue, remote, isOnline, googleConnected, syncSetting,
                 pullAll, isFlushing, cyc, op, now, ctr>>

\* the Google account is linked or unlinked
SetGoogleConnected(connected) ==
  /\ googleConnected # connected
  /\ googleConnected' = connected
  /\ Effect(isOnline, isSignedIn /\ connected /\ syncSetting)
  /\ UNCHANGED <<tasks, queue, remote, isOnline, isSignedIn, syncSetting,
                 pullAll, isFlushing, cyc, op, now, ctr>>

Tick ==
  /\ now < MaxTime
  /\ now' = now + 1
  /\ UNCHANGED <<tasks, queue, remote, isOnline, isSignedIn, googleConnected,
                 syncSetting, pullAll, isFlushing, hasSynced, timers, cyc, op,
                 ctr, autoRuns>>

\* ------------------------------------------------------------ task store
\* resp is what the direct attempt of the invocation met
IdleOp ==
  [pc |-> "idle", kind |-> "none", task |-> <<>>, newTasks |-> <<>>,
   resp |-> NoCall]

\* serializeTask of the fields processAIActions gives a new task
\* (origin is not a field of the program: it records where the task was made)
NewTask ==
  [id |-> ctr.task + 1, ver |-> 0, completed |-> FALSE, gcalEventId |-> 0,
   syncedWithGCal |-> FALSE, created_at |-> 0, updated_at |-> 0,
   origin |-> "local"]

\* what the direct attempt of a sync function can meet: it is made only
\* online and with sync permitted
DirectResponses(kind, eventId, wanted) ==
  IF wanted /\ canGoogleSync /\ isOnline
    THEN ServerResponses(kind, eventId)
    ELSE {NoCall}

\* syncCreate: the task it returns and the queue it leaves
syncCreate(task, resp) ==
  LET r == SyncResult(resp, ctr.event + 1) IN
    CASE ~canGoogleSync -> [task |-> task, queue |-> queue]
      [] resp.kind # "none" /\ r.success /\ r.eventId # 0 ->
           [task |-> [task EXCEPT !.gcalEventId = r.eventId, !.syncedWithGCal = TRUE],
            queue |-> queue]
      [] resp.kind # "none" /\ ~r.retryable -> [task |-> task, queue |-> queue]
      [] OTHER ->
           [task |-> task,
            queue |-> addOrReplaceSyncQueueItem(queue,
                        QueueItem("create", task.id, <<task>>, 0))]

\* syncUpdate without the test of the permission
syncUpdateUnchecked(task, resp) ==
  LET r == SyncResult(resp, 0) IN
    CASE task.gcalEventId = 0 -> queue
      [] resp.kind # "none" /\ r.success -> queue
      [] resp.kind # "none" /\ ~r.retryable -> queue
      [] OTHER -> addOrReplaceSyncQueueItem(queue,
                    QueueItem("update", task.id, <<task>>, task.gcalEventId))

\* syncUpdate: the queue it leaves
syncUpdate(task, resp) ==
  LET r == SyncResult(resp, 0) IN
    CASE task.gcalEventId = 0 \/ ~canGoogleSync -> queue
      [] resp.kind # "none" /\ r.success -> queue
      [] resp.kind # "none" /\ ~r.retryable -> queue
      [] OTHER -> addOrReplaceSyncQueueItem(queue,
                    QueueItem("update", task.id, <<task>>, task.gcalEventId))

\* syncDelete falling back to a plain add instead of add-or-replace
syncDeleteAdd(gcalEventId, taskId, resp) ==
  LET r == DeleteResult(resp) IN
    CASE gcalEventId = 0 \/ ~canGoogleSync -> queue
      [] resp.kind # "none" /\ r.success -> queue
      [] resp.kind # "none" /\ ~r.retryable -> queue
      [] OTHER -> Append(queue, QueueItem("delete", taskId, <<>>, gcalEventId))

\* syncDelete: the queue it leaves
syncDelete(gcalEventId, taskId, resp) ==
  LET r == DeleteResult(resp) IN
    CASE gcalEventId = 0 \/ ~canGoogleSync -> queue
      [] resp.kind # "none" /\ r.success -> queue
      [] resp.kind # "none" /\ ~r.retryable -> queue
      [] OTHER -> addOrReplaceSyncQueueItem(queue,
                    QueueItem("delete", taskId, <<>>, gcalEventId))

\* the identifiers a sync function has used
CtrAfterSync(kind, resp, q) ==
  [CtrAfter(kind, resp) EXCEPT !.item = IF q # queue THEN @ + 1 ELSE @]

\* processAIActions without AI (or after the AI call failed): syncCreate,
\* up to the store update that follows it
CreateTask ==
  /\ op.pc = "idle"
  /\ ctr.task < MaxCreates
  /\ \E resp \in DirectResponses("create", 0, TRUE) :
       LET res == syncCreate(NewTask, resp) IN
         /\ res.queue # queue => ctr.item < MaxItems
         /\ queue' = res.queue
         /\ remote' = RemoteAfter("create", NewTask, 0, resp)
         /\ ctr' = [CtrAfterSync("create", resp, res.queue) EXCEPT !.task = @ + 1]
         /\ op' = [pc |-> "commit", kind |-> "create", task |-> <<res.task>>,
                   newTasks |-> <<>>, resp |-> resp]
  /\ UNCHANGED <<tasks, isOnline, isSignedIn, googleConnected, syncSetting,
                 pullAll, isFlushing, hasSynced, timers, cyc, now, autoRuns>>

\* processAIActions, action "add": syncCreate, then the task joins newTasks
AddTask ==
  /\ op.pc = "idle"
  /\ ctr.task < MaxCreates
  /\ \E resp \in DirectResponses("create", 0, TRUE) :
       LET res == syncCreate(NewTask, resp) IN
         /\ res.queue # queue => ctr.item < MaxItems
         /\ queue' = res.queue
         /\ remote' = RemoteAfter("create", NewTask, 0, resp)
         /\ ctr' = [CtrAfterSync("create", resp, res.queue) EXCEPT !.task = @ + 1]
         /\ op' = [pc |-> "commit", kind |-> "add", task |-> <<>>,
                   newTasks |-> Append(tasks, res.task), resp |-> resp]
  /\ UNCHANGED <<tasks, isOnline, isSignedIn, googleConnected, syncSetting,
                 pullAll, isFlushing, hasSynced, timers, cyc, now, autoRuns>>

\* processAIActions, action "edit" of the i-th task: syncUpdate of the edited task
EditTask(i) ==
  /\ op.pc = "idle"
  /\ ctr.ver < MaxVer
  /\ LET updatedTask == [tasks[i] EXCEPT !.ver = ctr.ver + 1] IN
     \E resp \in DirectResponses("update", updatedTask.gcalEventId,
                                 updatedTask.gcalEventId # 0) :
       LET q == syncUpdate(updatedTask, resp) IN
         /\ q # queue => ctr.item < MaxItems
         /\ queue' = q
         /\ remote' = RemoteAfter("update", updatedTask, updatedTask.gcalEventId, resp)
         /\ ctr' = [CtrAfterSync("update", resp, q) EXCEPT !.ver = @ + 1]
         /\ op' = [pc |-> "commit", kind |-> "edit", task |-> <<>>,
                   newTasks |-> [tasks EXCEPT ![i] = updatedTask], resp |-> resp]
  /\ UNCHANGED <<tasks, isOnline, isSignedIn, googleConnected, syncSetting,
                 pullAll, isFlushing, hasSynced, timers, cyc, now, autoRuns>>

\* processAIActions, action "delete" of the i-th task: syncDelete, then the
\* task leaves newTasks
DeleteTask(i) ==
  /\ op.pc = "idle"
  /\ LET t == tasks[i] IN
     \E resp \in DirectResponses("delete", t.gcalEventId, t.gcalEventId # 0) :
       LET q == syncDelete(t.gcalEventId, t.id, resp) IN
         /\ q # queue => ctr.item < MaxItems
         /\ queue' = q
         /\ remote' = RemoteAfter("delete", t, t.gcalEventId, resp)
         /\ ctr' = CtrAfterSync("delete", resp, q)
         /\ op' = [pc |-> "commit", kind |-> "delete", task |-> <<>>,
                   newTasks |-> SelectSeq(tasks, LAMBDA x : x.id # t.id),
                   resp |-> resp]
  /\ UNCHANGED <<tasks, isOnline, isSignedIn, googleConnected, syncSetting,
                 pullAll, isFlushing, hasSynced, timers, cyc, now, autoRuns>>

\* processAIActions, action "mark" of the i-th task: no remote call
MarkTask(i) ==
  /\ op.pc = "idle"
  /\ op' = [pc |-> "commit", kind |-> "mark", task |-> <<>>,
            newTasks |-> [tasks EXCEPT ![i] = [@ EXCEPT !.completed = ~@,
                                                        !.updated_at = now]],
            resp |-> NoCall]
  /\ UNCHANGED <<tasks, queue, remote, isOnline, isSignedIn, googleConnected,
                 syncSetting, pullAll, isFlushing, hasSynced, timers, cyc, now,
                 ctr, autoRuns>>

\* processAIActions: the store update that ends the invocation
Commit ==
  /\ op.pc = "commit"
  /\ tasks' = IF op.kind = "create" THEN Append(tasks, op.task[1]) ELSE op.newTasks
  /\ op' = IdleOp
  /\ UNCHANGED <<queue, remote, isOnline, isSignedIn, googleConnected,
                 syncSetting, pullAll, isFlushing, hasSynced, timers, cyc, now,
                 ctr, autoRuns>>

\* ------------------------------------------------------------ the calendar's other users
\* an event is edited in the calendar itself
RemoteEdit(e) ==
  /\ ~e.cancelled
  /\ ctr.ver < MaxVer
  /\ \E done \in BOOLEAN :
       remote' = (remote \ {e}) \cup
                   {[e EXCEPT !.ver = ctr.ver + 1, !.completed = done, !.updated = now]}
  /\ ctr' = [ctr EXCEPT !.ver = @ + 1]
  /\ UNCHANGED <<tasks, queue, isOnline, isSignedIn, googleConnected, syncSetting,
                 pullAll, isFlushing, hasSynced, timers, cyc, op, now,
                 autoRuns>>

\* an event of another application appears in the calendar
ForeignEvent ==
  /\ ctr.event < MaxEvents
  /\ \E updated \in {0, now} :
       remote' = remote \cup
         {[id |-> ctr.event + 1, ver |-> 0, completed |-> FALSE,
           updated |-> updated, marked |-> FALSE, cancelled |-> FALSE,
           forTask |-> 0]}
  /\ ctr' = [ctr EXCEPT !.event = @ + 1]
  /\ UNCHANGED <<tasks, queue, isOnline, isSignedIn, googleConnected, syncSetting,
                 pullAll, isFlushing, hasSynced, timers, cyc, op, now,
                 autoRuns>>

\* an event is marked done, or not done, in the calendar itself
RemoteMark(e) ==
  /\ ~e.cancelled
  /\ remote' = (remote \ {e}) \cup {[e EXCEPT !.completed = ~@, !.updated = now]}
  /\ UNCHANGED <<tasks, queue, isOnline, isSignedIn, googleConnected, syncSetting,
                 pullAll, isFlushing, hasSynced, timers, cyc, op, now, ctr,
                 autoRuns>>

\* an event is deleted in the calendar itself
RemoteCancel(e) ==
  /\ ~e.cancelled
  /\ remote' = (remote \ {e}) \cup {[e EXCEPT !.cancelled = TRUE, !.updated = now]}
  /\ UNCHANGED <<tasks, queue, isOnline, isSignedIn, googleConnected, syncSetting,
                 pullAll, isFlushing, hasSynced, timers, cyc, op, now, ctr,
                 autoRuns>>

\* ------------------------------------------------------------ specification
Init ==
  /\ tasks = <<>>
  /\ queue = <<>>
  /\ remote = {}
  /\ isOnline \in BOOLEAN
  /\ isSignedIn = TRUE
  /\ googleConnected = TRUE
  /\ syncSetting = TRUE
  /\ pullAll \in BOOLEAN
  /\ isFlushing = FALSE
  /\ hasSynced = isOnline
  /\ timers = IF isOnline THEN 1 ELSE 0
  /\ cyc = [c \in Cycles |-> IdleCycle]
  /\ op = IdleOp
  /\ now = 1
  /\ ctr = [task |-> 0, item |-> 0, event |-> 0, ver |-> 0]
  /\ autoRuns = 0

Next ==
  \/ CreateTask
  \/ AddTask
  \/ \E i \in 1..Len(tasks) : EditTask(i)
  \/ \E i \in 1..Len(tasks) : DeleteTask(i)
  \/ \E i \in 1..Len(tasks) : MarkTask(i)
  \/ Commit
  \/ SyncNow
  \/ AutoSync
  \/ \E c \in Cycles : FlushGetQueue(c)
  \/ \E c \in Cycles : FlushItem(c)
  \/ \E c \in Cycles : FlushItemThrows(c)
  \/ \E c \in Cycles : FlushGetQueueThrows(c)
  \/ \E c \in Cycles : FlushReturn(c)
  \/ \E c \in Cycles : PullFetch(c)
  \/ \E c \in Cycles : PullMerge(c)
  \/ \E c \in Cycles : CycleFinish(c)
  \/ \E b \in BOOLEAN : SetOnline(b)
  \/ \E b \in BOOLEAN : SetSyncSetting(b)
  \/ \E b \in BOOLEAN : SetSignedIn(b)
  \/ \E b \in BOOLEAN : SetGoogleConnected(b)
  \/ \E e \in remote : RemoteEdit(e)
  \/ ForeignEvent
  \/ \E e \in remote : RemoteCancel(e)
  \/ \E e \in remote : RemoteMark(e)
  \/ Tick

Spec == Init /\ [][Next]_vars

\* ------------------------------------------------------------ scenarios
\* only the events that carry the marker are pulled
InitMarked == Init /\ pullAll = FALSE

\* the same, on a device that stays online
InitOnline == InitMarked /\ isOnline = TRUE

\* The steps of a sync cycle once it has been triggered
CycleStep ==
  \/ \E c \in Cycles : FlushGetQueue(c)
  \/ \E c \in Cycles : FlushItem(c)
  \/ \E c \in Cycles : FlushReturn(c)
  \/ \E c \in Cycles : PullFetch(c)
  \/ \E c \in Cycles : PullMerge(c)
  \/ \E c \in Cycles : CycleFinish(c)

\* Push side: the user creates, edits and deletes a task while the device
\* goes offline and online; every cycle is an automatic one
NextPush ==
  \/ CreateTask
  \/ AddTask
  \/ \E i \in 1..Len(tasks) : EditTask(i)
  \/ \E i \in 1..Len(tasks) : DeleteTask(i)
  \/ Commit
  \/ AutoSync
  \/ CycleStep
  \/ \E b \in BOOLEAN : SetOnline(b)

SpecPush == InitMarked /\ [][NextPush]_vars

\* Pull side: a task and its event are changed on both sides as time passes
NextPull ==
  \/ CreateTask
  \/ Commit
  \/ \E i \in 1..Len(tasks) : MarkTask(i)
  \/ \E e \in remote : RemoteEdit(e)
  \/ Tick
  \/ SyncNow
  \/ CycleStep

SpecPull == InitOnline /\ [][NextPull]_vars

\* Triggers: the manual and the automatic cycle, at once or in turn, under
\* changes of connectivity and of permission
NextAuto ==
  \/ CreateTask
  \/ Commit
  \/ SyncNow
  \/ AutoSync
  \/ CycleStep
  \/ \E b \in BOOLEAN : SetOnline(b)
  \/ \E b \in BOOLEAN : SetSyncSetting(b)
  \/ \E b \in BOOLEAN : SetSignedIn(b)
  \/ \E b \in BOOLEAN : SetGoogleConnected(b)

SpecAuto == InitMarked /\ [][NextAuto]_vars

\* Mutations: the user creates, edits, marks and deletes a task while
\* connectivity and permission change; no cycle gets to run
NextMutate ==
  \/ CreateTask
  \/ AddTask
  \/ \E i \in 1..Len(tasks) : EditTask(i)
  \/ \E i \in 1..Len(tasks) : DeleteTask(i)
  \/ \E i \in 1..Len(tasks) : MarkTask(i)
  \/ Commit
  \/ \E b \in BOOLEAN : SetOnline(b)
  \/ \E b \in BOOLEAN : SetSyncSetting(b)
  \/ \E b \in BOOLEAN : SetSignedIn(b)
  \/ \E b \in BOOLEAN : SetGoogleConnected(b)

SpecMutate == InitMarked /\ [][NextMutate]_vars

\* The mapping on its own: a task is mapped to an event and back
MaxWords == 2   \* tokens in a task's description
MaxDay == 2     \* calendar days a task can be dated

Words == {"buy milk", CUE_DONE_MARKER, CUE_MARKER, "Priority: low"}

Descriptions == UNION {[1..n -> Words] : n \in 0..MaxWords}

Times == {<<>>, <<0, 0>>, <<9, 5>>, <<14, 30>>, <<23, 59>>}

Timezones == {-300, 0, 120}

\* the tasks mapped: dated at local midnight or local 23:00 of a day
MappedTasks(timezone) ==
  {[priority |-> p, description |-> d, completed |-> c,
    date |-> LocalDate(day, h, 0, timezone), scheduled_time |-> t] :
     p \in Priorities \cup {"none"}, d \in Descriptions, c \in BOOLEAN,
     day \in 1..MaxDay, h \in {0, 23}, t \in Times}

MapTask ==
  /\ op.pc = "idle"
  /\ \E timezone \in Timezones : \E task \in MappedTasks(timezone) :
       LET event == taskToEvent(task, timezone) IN
         op' = [pc |-> "mapped", kind |-> "map", task |-> <<task>>,
                newTasks |-> <<eventToTaskFields(event, timezone)>>,
                resp |-> NoCall, event |-> event, timezone |-> timezone]
  /\ UNCHANGED <<tasks, queue, remote, isOnline, isSignedIn, googleConnected,
                 syncSetting, pullAll, isFlushing, hasSynced, timers, cyc, now,
                 ctr, autoRuns>>

MapReturn ==
  /\ op.pc = "mapped"
  /\ op' = IdleOp
  /\ UNCHANGED <<tasks, queue, remote, isOnline, isSignedIn, googleConnected,
                 syncSetting, pullAll, isFlushing, hasSynced, timers, cyc, now,
                 ctr, autoRuns>>

NextMapping == MapTask \/ MapReturn

SpecMapping == InitOnline /\ [][NextMapping]_vars

\* The adapter on its own: createEvent, updateEvent and deleteEvent under
\* every answer, the retryable statuses and their neighbours included
AnyStatuses == {200, 400, 401, 403, 404, 408, 410, 425, 429, 500, 502, 503, 504}

AnyResponses ==
  [kind : {"http"}, status : AnyStatuses, message : Messages]
    \cup {r \in Responses : r.kind # "http"}

\* one call of the adapter has returned its GoogleSyncResult
AdapterCall ==
  /\ cyc["manual"].pc = "idle"
  /\ \E operation \in {"create", "update", "delete"}, resp \in AnyResponses :
       cyc' = [cyc EXCEPT !["manual"] =
                 [IdleCycle EXCEPT !.pc = "answered", !.snap = <<operation>>,
                                   !.resp = resp,
                                   !.result = ItemResult([operation |-> operation], resp)]]
  /\ UNCHANGED <<tasks, queue, remote, isOnline, isSignedIn, googleConnected,
                 syncSetting, pullAll, isFlushing, hasSynced, timers, op, now,
                 ctr, autoRuns>>

\* the caller has taken the result
AdapterReturn ==
  /\ cyc["manual"].pc = "answered"
  /\ cyc' = [cyc EXCEPT !["manual"] = IdleCycle]
  /\ UNCHANGED <<tasks, queue, remote, isOnline, isSignedIn, googleConnected,
                 syncSetting, pullAll, isFlushing, hasSynced, timers, op, now,
                 ctr, autoRuns>>

NextAdapter == AdapterCall \/ AdapterReturn

SpecAdapter == InitMarked /\ [][NextAdapter]_vars

\* ------------------------------------------------------------ properties
\* a step that enqueues: a sync function has built a fresh queue item
Enqueues == ctr'.item = ctr.item + 1

\* C1: the durable queue holds at most one item per task identifier, and an
\* enqueue for a task leaves exactly one item for that task, the new one,
\* whatever was pending for it; the items of other tasks stay as they were.
C1_QueueDedup ==
  /\ [](\A i, j \in 1..Len(queue) : queue[i].taskId = queue[j].taskId => i = j)
  /\ [][Enqueues =>
          LET n == Len(queue')
              b == queue'[n]
          IN /\ n > 0
             /\ b.id = ctr'.item
             /\ b.retryCount = 0
             /\ ItemsOf(queue', b.taskId) = {n}
             /\ SelectSeq(queue, LAMBDA x : x.taskId # b.taskId)
                  = SubSeq(queue', 1, n - 1)]_vars

\* C1 witness: a flush holds item A in its snapshot, not yet attempted, while
\* the queue holds only item B of the same task: B has replaced the pending A.
C1_Witness ==
  \E c \in Cycles :
    /\ cyc[c].pc = "item"
    /\ cyc[c].idx = 1
    /\ Len(queue) = 1
    /\ queue[1].taskId = cyc[c].snap[1].taskId
    /\ queue[1].id # cyc[c].snap[1].id
    /\ queue[1].operation = "delete"

\* cycle c takes the step of flushQueue that handles one item of its snapshot
HandlesItem(c) == cyc[c].pc = "item" /\ cyc'[c] # cyc[c]

QueueIds(q) == {q[i].id : i \in 1..Len(q)}

\* an item that has left the queue does not come back in this step
NoneReturns ==
  \A id \in 1..ctr.item : id \notin QueueIds(queue) => id \notin QueueIds(queue')

\* C3: an item is attempted at most MAX_SYNC_RETRIES times. Every pending
\* item has failed fewer than MAX_SYNC_RETRIES times; a retryable failure
\* below the ceiling leaves the item with one more failure counted, and the
\* retryable failure that is its MAX_SYNC_RETRIES-th removes it and counts
\* it as dropped; an identifier that has left the queue never returns.
C3_RetryCeiling ==
  /\ [](\A i \in 1..Len(queue) : queue[i].retryCount < MAX_SYNC_RETRIES)
  /\ [][\A c \in Cycles :
          LET item == cyc[c].snap[cyc[c].idx]
              r == cyc'[c].result
              before == cyc[c].counts
              after == cyc'[c].counts
          IN HandlesItem(c) =>
               /\ item.retryCount < MAX_SYNC_RETRIES
               /\ ~r.success /\ r.retryable =>
                    IF item.retryCount + 1 = MAX_SYNC_RETRIES
                      THEN /\ after = [before EXCEPT !.dropped = @ + 1]
                           /\ item.id \notin QueueIds(queue')
                      ELSE /\ after = [before EXCEPT !.retrying = @ + 1]
                           /\ \A i \in 1..Len(queue') :
                                queue'[i].id = item.id =>
                                  queue'[i].retryCount = item.retryCount + 1]_vars
  /\ [][NoneReturns]_vars

\* C3 witness: a flush has just handled the last item of its snapshot, which
\* had failed twice before; the call failed retryably again, the item is
\* counted as dropped and the queue no longer holds it.
C3_Witness ==
  \E c \in Cycles :
    /\ cyc[c].pc = "refresh"
    /\ cyc[c].snap[cyc[c].idx].retryCount = MAX_SYNC_RETRIES - 1
    /\ ~cyc[c].result.success /\ cyc[c].result.retryable
    /\ cyc[c].counts.dropped = 1
    /\ cyc[c].snap[cyc[c].idx].id \notin QueueIds(queue)

\* C4: a failure that is not retryable removes the item and counts it as
\* dropped at once, whatever its retry counter; so does every HTTP failure
\* whose message matches a permanent-error pattern; the item never comes
\* back into the queue.
C4_PermanentDrop ==
  [][/\ \A c \in Cycles :
          LET item == cyc[c].snap[cyc[c].idx]
              r == cyc'[c].result
          IN HandlesItem(c) /\ ~r.success
               /\ (~r.retryable
                     \/ r.message \in {"Event type cannot be changed", "Not Found"})
             => /\ cyc'[c].counts = [cyc[c].counts EXCEPT !.dropped = @ + 1]
                /\ item.id \notin QueueIds(queue')
     /\ NoneReturns]_vars

\* C4 witness: an item that had failed once, retryably, has met a failure
\* with a permanent-error message under a retryable status: it is dropped
\* below the ceiling.
C4_Witness ==
  \E c \in Cycles :
    /\ cyc[c].pc = "refresh"
    /\ cyc[c].snap[cyc[c].idx].retryCount = 1
    /\ ~cyc[c].result.success
    /\ cyc[c].result.message = "Event type cannot be changed"
    /\ cyc[c].counts.dropped = 1
    /\ cyc[c].snap[cyc[c].idx].id \notin QueueIds(queue)

\* C5: no two tasks of the Task Store carry the same remote event identifier.
C5_OneTaskPerEvent ==
  \A i, j \in 1..Len(tasks) :
    tasks[i].gcalEventId # 0 /\ tasks[i].gcalEventId = tasks[j].gcalEventId
      => i = j

\* C6: when a task is deleted while a create for it is pending, the queue
\* holds no create for that task once syncDelete has returned.
C6_DeleteSupersedesCreate ==
  [][op.pc = "idle" /\ op'.kind = "delete" =>
       \A i \in 1..Len(tasks) :
         tasks[i].id \notin TaskIds(op'.newTasks) =>
           ~\E k \in 1..Len(queue') :
              /\ queue'[k].taskId = tasks[i].id
              /\ queue'[k].operation = "create"]_vars

\* the task a create step of processAIActions has built
Created(o) == IF o.kind = "create" THEN o.task[1] ELSE o.newTasks[Len(o.newTasks)]

\* C7: a task created offline with sync permitted leaves exactly one queue
\* item for it, a create, and carries no remote identifier; when a flush that
\* finds the task in the Task Store has its create succeed, the item leaves
\* the queue and the task carries the returned identifier and the mirrored
\* flag, in the Task Store once the flush has written its batch.
C7_OfflineCreateSyncs ==
  /\ [][op.pc = "idle" /\ op'.kind \in {"create", "add"}
          /\ ~isOnline /\ canGoogleSync =>
          LET t == Created(op')
              n == Len(queue')
          IN /\ t.gcalEventId = 0 /\ ~t.syncedWithGCal
             /\ ItemsOf(queue', t.id) = {n}
             /\ queue'[n].operation = "create"
             /\ queue'[n].taskData = <<t>>]_vars
  /\ [][\A c \in Cycles :
          LET item == cyc[c].snap[cyc[c].idx]
              r == cyc'[c].result
              copy == cyc'[c].updatedTasks
          IN HandlesItem(c) /\ item.operation = "create" /\ r.success
               /\ item.taskId \in TaskIds(cyc[c].updatedTasks) =>
               /\ item.id \notin QueueIds(queue')
               /\ r.eventId # 0
               /\ \A i \in 1..Len(copy) :
                    copy[i].id = item.taskId =>
                      copy[i].gcalEventId = r.eventId /\ copy[i].syncedWithGCal
               /\ cyc'[c].pc = "refresh" => tasks' = copy]_vars

\* C7 witness: a flush has pushed the only queued item, a create; the queue
\* is empty and the task carries the identifier of its event, mirrored.
C7_Witness ==
  \E c \in Cycles :
    /\ cyc[c].pc = "refresh"
    /\ Len(cyc[c].snap) = 1
    /\ cyc[c].snap[1].operation = "create"
    /\ cyc[c].result.success
    /\ queue = <<>>
    /\ \E i \in 1..Len(tasks) :
         /\ tasks[i].id = cyc[c].snap[1].taskId
         /\ tasks[i].gcalEventId = cyc[c].result.eventId
         /\ tasks[i].gcalEventId # 0
         /\ tasks[i].syncedWithGCal
         /\ \E e \in remote : e.id = tasks[i].gcalEventId /\ e.forTask = tasks[i].id

\* cycle c takes the step of pullFromCalendar that merges the fetched events
MergesPull(c) == cyc[c].pc = "merge" /\ cyc'[c] # cyc[c]

\* C8: in a pull merge, the task matched to a fetched event by its remote
\* identifier takes the event's content, completion and last-modified time
\* if and only if the event's last-modified time t2 is greater than the
\* task's t1; when t2 <= t1 the task is left as it was.
C8_LastWriterWins ==
  [][\A c \in Cycles : MergesPull(c) =>
       \A k \in 1..Len(cyc[c].events) :
         LET r == cyc[c].events[k]
             i == FindIndex(tasks, LAMBDA t : t.gcalEventId = r.gcalEventId)
             t1 == tasks[i].updated_at
             t2 == r.gcalUpdated
         IN i # 0 =>
              /\ t2 > t1 => tasks'[i] = [tasks[i] EXCEPT !.ver = r.ver,
                                                         !.completed = r.completed,
                                                         !.updated_at = t2]
              /\ t2 <= t1 => tasks'[i] = tasks[i]]_vars

\* C8 witness: the only task, created here and marked at time 1, carries the
\* content and the time of a later edit of its event made in the calendar.
C8_Witness ==
  /\ ctr.task = 1
  /\ Len(tasks) = 1
  /\ tasks[1].ver = 1
  /\ tasks[1].updated_at = MaxTime
  /\ \E e \in remote :
       /\ e.id = tasks[1].gcalEventId
       /\ e.ver = 1 /\ e.updated = MaxTime
       /\ e.completed = tasks[1].completed

\* cycle c is triggered: syncNow or the auto-sync callback calls flushQueue
Enters(c) ==
  /\ cyc[c].pc = "idle"
  /\ cyc'[c].pc # "idle" \/ (c = "auto" /\ autoRuns' = autoRuns + 1)

\* C2: at most one flush is in progress, the in-progress flag being set
\* exactly then; a flushQueue entered while the flag is set returns the zero
\* counts at once and changes neither the queue, the Task Store nor the
\* remote calendar.
C2_OneFlush ==
  /\ [](Cardinality({c \in Cycles : cyc[c].pc \in FlushPcs}) <= 1)
  /\ [](isFlushing <=> \E c \in Cycles : cyc[c].pc \in FlushPcs)
  /\ [][\A c \in Cycles : Enters(c) /\ isFlushing =>
          /\ cyc'[c].pc \notin FlushPcs
          /\ cyc'[c].pc # "idle" => cyc'[c].flushed = <<Zeros>>
          /\ UNCHANGED <<queue, tasks, remote, isFlushing>>]_vars

\* C2 witness: one cycle is inside its flush, with an item to push, while
\* the other, whose flushQueue met the flag set and returned zeros, is
\* already at its pull.
C2_Witness ==
  \E c, d \in Cycles :
    /\ cyc[c].pc = "item"
    /\ cyc[d].pc = "fetch"
    /\ cyc[d].busy
    /\ cyc[d].flushed = <<Zeros>>
    /\ queue # <<>>

\* C9: a cycle reaches its pull only through the return of its own
\* flushQueue: from the empty-queue return, from the return after the last
\* item of the snapshot (the flag cleared in both), or from the immediate
\* return of an entry that met the flag set; it never fetches with its own
\* flush still running.
C9_FlushBeforePull ==
  /\ [](\A c \in Cycles : cyc[c].pc \in {"fetch", "merge"} => cyc[c].flushed # <<>>)
  /\ [][\A c \in Cycles : cyc'[c].pc = "fetch" /\ cyc[c].pc # "fetch" =>
          \/ /\ cyc[c].pc = "getQueue"
             /\ queue = <<>>
             /\ ~isFlushing'
          \/ /\ cyc[c].pc = "refresh"
             /\ cyc[c].idx = Len(cyc[c].snap)
             /\ cyc'[c].flushed = <<cyc[c].counts>>
             /\ ~isFlushing'
          \/ /\ cyc[c].pc = "idle"
             /\ isFlushing]_vars

\* C9 witness: a cycle is at its pull after its flush has pushed an item.
C9_Witness ==
  \E c \in Cycles :
    /\ cyc[c].pc = "fetch"
    /\ cyc[c].flushed # <<>>
    /\ cyc[c].flushed[1].processed = 1
    /\ ~isFlushing
    /\ remote # {}

\* C10: the automatic trigger starts at most one cycle between two changes
\* of "online and permitted", and none while the state is not online and
\* permitted.
C10_OneAutoPerPeriod ==
  /\ [](autoRuns <= 1)
  /\ [][autoRuns' = autoRuns + 1 =>
          isOnline /\ canSync /\ hasSynced /\ timers' = 0]_vars

\* C10 witness: the state has left online-and-permitted and entered it
\* again while the automatic cycle of the earlier period is still at work;
\* the trigger is armed once more, and has not fired in the new period.
C10_Witness ==
  /\ isOnline /\ canSync /\ hasSynced
  /\ timers = 1
  /\ autoRuns = 0
  /\ cyc["auto"].pc # "idle"

\* a step of pullFromCalendar in cycle c: the listing answers, or the merge
PullStep(c) == cyc[c].pc \in {"fetch", "merge"} /\ cyc'[c] # cyc[c]

\* C11: a pull never removes a task from the Task Store: every task
\* identifier present before a step of a pull is present after it, whether
\* the listing failed, was empty, or lacked the event a task is linked to,
\* and the tasks that were there keep their places.
C11_PullKeepsTasks ==
  [][\A c \in Cycles :
       PullStep(c) =>
         /\ TaskIds(tasks) \subseteq TaskIds(tasks')
         /\ Len(tasks') >= Len(tasks)
         /\ \A i \in 1..Len(tasks) : tasks'[i].id = tasks[i].id]_vars

\* a pull has returned after a listing the service answered, and the store
\* still holds a task whose event the calendar has cancelled
C11_Witness ==
  \E c \in Cycles :
    /\ cyc[c].pc = "finish"
    /\ cyc[c].resp.kind = "http" /\ cyc[c].resp.status = 200
    /\ \E i \in 1..Len(tasks) :
         /\ tasks[i].gcalEventId # 0
         /\ ~Live(tasks[i].gcalEventId)
\* flushQueue is entered by cycle c
EntersFlush(c) == cyc[c].pc = "idle" /\ cyc'[c] # cyc[c]

\* pullFromCalendar is entered by cycle c: flushQueue has just returned
EntersPull(c) ==
  /\ cyc[c].pc \in {"idle", "getQueue", "refresh"}
  /\ cyc'[c] # cyc[c]
  /\ cyc'[c].pc \notin FlushPcs

CurrentItem(c) == cyc[c].snap[cyc[c].idx]

\* C13: deleteEvent reports success when the DELETE is answered 404 or 410,
\* so a queued delete of an event the calendar no longer holds leaves the
\* queue counted as processed, neither retried nor dropped.
C13_DeleteGoneIsDone ==
  [][\A c \in Cycles :
       (/\ HandlesItem(c)
        /\ CurrentItem(c).operation = "delete"
        /\ cyc'[c].resp.kind = "http"
        /\ cyc'[c].resp.status \in {404, 410})
       => /\ cyc'[c].result.success
          /\ cyc'[c].counts = [cyc[c].counts EXCEPT !.processed = @ + 1]
          /\ CurrentItem(c).id \notin QueueIds(queue')]_vars

\* a flush has just counted as processed a queued delete that was answered
\* 404 or 410
C13_Witness ==
  \E c \in Cycles :
    /\ cyc[c].pc = "refresh"
    /\ CurrentItem(c).operation = "delete"
    /\ cyc[c].resp.kind = "http" /\ cyc[c].resp.status \in {404, 410}
    /\ cyc[c].result.success
    /\ cyc[c].counts.processed >= 1
    /\ CurrentItem(c).id \notin QueueIds(queue)
\* the adapter has answered a call with the result of a failed HTTP response
FailedHttp ==
  /\ cyc["manual"].pc = "answered"
  /\ cyc["manual"].resp.kind = "http"
  /\ ~cyc["manual"].result.success

\* C14: for a failed HTTP response of create, update or delete, the result
\* is retryable exactly when the status is one of 408, 425, 429, 500, 502,
\* 503, 504 and the message matches no permanent pattern ("cannot be
\* changed", "not found"); a permanent message makes it non-retryable even
\* with a retryable status, and a status outside the set is non-retryable.
C14_RetryableRule ==
  FailedHttp =>
    LET status == cyc["manual"].resp.status
        message == cyc["manual"].resp.message
        permanent == message \in {"Event type cannot be changed", "Not Found"}
        inSet == status \in {408, 425, 429, 500, 502, 503, 504}
    IN /\ cyc["manual"].result.retryable <=> (inSet /\ ~permanent)
       /\ permanent => ~cyc["manual"].result.retryable
       /\ ~inSet => ~cyc["manual"].result.retryable
       /\ cyc["manual"].result.message = message

\* a 503 with a permanent message has come back as not retryable
C14_Witness ==
  /\ FailedHttp
  /\ cyc["manual"].resp.status = 503
  /\ cyc["manual"].resp.message = "Event type cannot be changed"
  /\ ~cyc["manual"].result.retryable
\* the listing call of cycle c answers
FetchStep(c) == cyc[c].pc = "fetch" /\ cyc'[c] # cyc[c]

\* a mutation makes its direct attempt
DirectStep == op.pc = "idle" /\ op'.pc = "commit"

\* C15: when token acquisition returns null, create, update and delete
\* return success = false and retryable = false and the calendar is not
\* called (it stays as it was and assigns no identifier), and the listing
\* returns the empty sequence.
C15_NoTokenNoCall ==
  [][/\ \A c \in Cycles :
          /\ (HandlesItem(c) /\ cyc'[c].resp.kind = "noToken")
               => /\ ~cyc'[c].result.success
                  /\ ~cyc'[c].result.retryable
                  /\ remote' = remote
                  /\ ctr'.event = ctr.event
          /\ (FetchStep(c) /\ cyc'[c].resp.kind = "noToken")
               => /\ cyc'[c].events = <<>>
                  /\ cyc'[c].pulled = <<0>>
                  /\ UNCHANGED <<remote, tasks>>
     /\ (DirectStep /\ op'.resp.kind = "noToken")
          => UNCHANGED <<remote, queue>> /\ ctr'.event = ctr.event]_vars

\* a create or an update of the queue has met a missing token and come back
\* failed and not retryable
C15_Witness ==
  \E c \in Cycles :
    /\ cyc[c].pc = "refresh"
    /\ CurrentItem(c).operation \in {"create", "update"}
    /\ cyc[c].resp.kind = "noToken"
    /\ ~cyc[c].result.success
    /\ ~cyc[c].result.retryable
\* C16: an authorization failure during a flush (no token to be had, the
\* account no longer connected) only skips the operation: the queue item is
\* not counted as dropped and is still in the queue afterwards.
C16_AuthFailureKeepsItem ==
  [][\A c \in Cycles :
       (HandlesItem(c) /\ cyc'[c].resp.kind = "noToken")
       => /\ CurrentItem(c).id \in QueueIds(queue')
          /\ cyc'[c].counts.dropped = cyc[c].counts.dropped]_vars

\* C17: the adapter turns every failure into a result: a network exception
\* in create, update or delete gives success = false, retryable = true and
\* the exception's message, so the caller queues or retries the operation;
\* a listing that fails (HTTP error, network exception, missing token) gives
\* the empty sequence, so the pull returns 0 and changes nothing.
C17_FailuresAreResults ==
  [][/\ \A c \in Cycles :
          /\ (HandlesItem(c) /\ cyc'[c].resp.kind = "network")
               => /\ cyc'[c].result = Failure(TRUE, cyc'[c].resp.message)
                  /\ cyc'[c].counts.processed = cyc[c].counts.processed
                  /\ remote' = remote
          /\ (FetchStep(c)
                 /\ ~(cyc'[c].resp.kind = "http" /\ cyc'[c].resp.status = 200))
               => /\ cyc'[c].events = <<>>
                  /\ cyc'[c].pc = "finish"
                  /\ cyc'[c].pulled = <<0>>
                  /\ UNCHANGED <<remote, tasks, queue>>
     /\ (DirectStep /\ op'.resp.kind = "network")
          => Enqueues /\ remote' = remote]_vars

\* a queued operation has met a network exception and waits for its retry
C17_Witness ==
  \E c \in Cycles :
    /\ cyc[c].pc = "refresh"
    /\ cyc[c].resp.kind = "network"
    /\ cyc[c].result.retryable
    /\ cyc[c].counts.retrying >= 1
    /\ CurrentItem(c).id \in QueueIds(queue)

\* the remote operation a mutation stands for
OperationOf(o) ==
  CASE o.kind \in {"create", "add"} -> "create"
    [] o.kind = "edit" -> "update"
    [] OTHER -> "delete"

\* the direct attempt of a mutation was made and failed retryably
FailedRetryably(o) ==
  /\ o.resp # NoCall
  /\ LET r == ItemResult([operation |-> OperationOf(o)], o.resp)
     IN ~r.success /\ r.retryable

\* C18: a mutation appends or replaces a queue item only when sync is
\* permitted (enabled in the settings, signed in, Google account connected)
\* and either the device is offline or the direct attempt failed retryably;
\* without permission no attempt is made and the queue is unchanged, and it
\* is unchanged when the direct attempt succeeded or failed permanently.
C18_EnqueueOnlyWhenDue ==
  [][DirectStep =>
       /\ queue' # queue =>
            /\ Enqueues
            /\ syncSetting /\ isSignedIn /\ googleConnected
            /\ ~isOnline \/ FailedRetryably(op')
       /\ ~(syncSetting /\ isSignedIn /\ googleConnected) =>
            /\ op'.resp = NoCall
            /\ UNCHANGED <<queue, remote>>
       /\ (op'.resp # NoCall /\ ~FailedRetryably(op')) => queue' = queue]_vars

\* the edit of a mirrored task was made without permission: no attempt, and
\* nothing queued
C18_Witness ==
  /\ op.pc = "commit"
  /\ op.kind = "edit"
  /\ \E i \in 1..Len(op.newTasks) :
       op.newTasks[i].gcalEventId # 0 /\ op.newTasks[i].ver # 0
  /\ ~syncSetting
  /\ isOnline
  /\ op.resp = NoCall
  /\ queue = <<>>

\* C19: after a cycle whose remote calls all succeed the stores have
\* converged; in particular, an edit made to a task while its create is
\* still queued is reflected in the remote event after the flush: when the
\* flush carries out the queued create of a task, the event the calendar
\* then holds has the content the task has in the Task Store.
C19_QueuedEditReachesRemote ==
  [][\A c \in Cycles :
       (/\ HandlesItem(c)
        /\ CurrentItem(c).operation = "create"
        /\ ~Vacuous(CurrentItem(c))
        /\ cyc'[c].result.success)
       => \A i \in 1..Len(tasks) :
            tasks[i].id = CurrentItem(c).taskId =>
              \E e \in remote' :
                /\ e.id = cyc'[c].result.eventId
                /\ e.ver = tasks[i].ver
                /\ e.completed = tasks[i].completed]_vars

\* cycle c has been triggered and has not yet reached its `finally`
InProgress(c) == cyc[c].pc \in FlushPcs \cup {"fetch", "merge"}

\* C20: once a manual cycle has started, a trigger that arrives while it is
\* in progress is skipped (it starts neither a flush nor a pull), so that no
\* pull executes while the flush of the manual cycle is still in progress.
C20_TriggerSkippedDuringCycle ==
  [][(InProgress("manual") /\ EntersFlush("auto")) => ~InProgress("auto")']_vars

\* C21: after a suspension inside a flush the engine checks permission and
\* connectivity again before the next remote call: once permission is
\* revoked or the device is offline, no remote call is made for the
\* remaining items of the snapshot (none reaches the service, none is
\* attempted on the network, the calendar stays as it was).
C21_RecheckBeforeCall ==
  [][\A c \in Cycles :
       (/\ HandlesItem(c)
        /\ ~Vacuous(CurrentItem(c))
        /\ ~canSync \/ ~isOnline)
       => /\ cyc'[c].resp.kind \notin {"http", "network"}
          /\ remote' = remote]_vars

\* every task the program holds: in the store, in an invocation under way,
\* in the working copy of a flush
HeldTasks ==
  {tasks[i] : i \in 1..Len(tasks)}
    \cup {op.task[i] : i \in 1..Len(op.task)}
    \cup {op.newTasks[i] : i \in 1..Len(op.newTasks)}
    \cup UNION {{cyc[c].updatedTasks[i] : i \in 1..Len(cyc[c].updatedTasks)}
                  : c \in Cycles}

Mapped == op.pc = "mapped"

\* the four fields of C23 have come back as they were
RoundTrip ==
  /\ op.newTasks[1].priority = op.task[1].priority
  /\ op.newTasks[1].description = op.task[1].description
  /\ op.newTasks[1].completed = op.task[1].completed
  /\ op.newTasks[1].scheduled_time = op.task[1].scheduled_time

PlainDescription(task) ==
  /\ ~Includes(task.description, CUE_MARKER)
  /\ ~Includes(task.description, CUE_DONE_MARKER)
  /\ task.priority = "none" => PriorityMatch(task.description) = <<>>

C24_AllDay ==
  (Mapped /\ op.task[1].scheduled_time = <<>>) =>
    /\ op.event.allDay
    /\ op.event.start = LocalDay(op.task[1].date, op.timezone)
    /\ op.event.end = op.event.start + 1
    /\ op.newTasks[1].scheduled_time = <<>>

\* ------------------------------------------------------------ import
\* The import on its own: a file is read into the task store
MaxImport == 2   \* elements of an imported array

ImportIds == {MaxTasks + 1, MaxTasks + 2}

\* an element of an imported array: null, or an object with the fields of a
\* task, its timestamps present or missing
ImportItems ==
  [json : {"object"}, id : ImportIds, created_at : {<<>>, <<0>>},
   updated_at : {<<>>, <<0>>}]
    \cup {[json |-> "null", id |-> 0, created_at |-> <<>>, updated_at |-> <<>>]}

\* the content of a file: text that is not JSON, a JSON value that is not an
\* array, or a JSON array
Files ==
  {[kind |-> "text", items |-> <<>>], [kind |-> "value", items |-> <<>>]}
    \cup {[kind |-> "array", items |-> items] :
            items \in UNION {[1..n -> ImportItems] : n \in 0..MaxImport}}

\* the timestamps stay missing
ImportedTaskAsIs(item) ==
  [id |-> item.id, ver |-> 0, completed |-> FALSE, gcalEventId |-> 0,
   syncedWithGCal |-> FALSE,
   created_at |-> IF item.created_at = <<>> THEN 0 ELSE item.created_at[1],
   updated_at |-> IF item.updated_at = <<>> THEN 0 ELSE item.updated_at[1],
   origin |-> "imported"]

\* serializeTask of an element with its timestamps set
ImportedTask(item) ==
  [id |-> item.id, ver |-> 0, completed |-> FALSE, gcalEventId |-> 0,
   syncedWithGCal |-> FALSE,
   created_at |-> IF item.created_at = <<>> THEN now ELSE item.created_at[1],
   updated_at |-> IF item.updated_at = <<>> THEN now ELSE item.updated_at[1],
   origin |-> "imported"]

\* JSON.parse, the array test and the map over the elements each throw into
\* the catch of the load handler: reading a field of null throws
Parses(file) ==
  /\ file.kind = "array"
  /\ \A i \in 1..Len(file.items) : file.items[i].json = "object"

\* importTasks: the load handler of the file reader
importTasks(file) ==
  IF Parses(file)
    THEN [success |-> TRUE,
          tasks |-> [i \in 1..Len(file.items) |-> ImportedTask(file.items[i])]]
    ELSE [success |-> FALSE, tasks |-> tasks]

\* op.task is the task list the import found
ImportTasks ==
  /\ op.pc = "idle"
  /\ \E file \in Files :
       LET res == importTasks(file) IN
         /\ tasks' = res.tasks
         /\ op' = [pc |-> "imported", kind |-> "import", task |-> tasks,
                   newTasks |-> <<>>, resp |-> NoCall, file |-> file,
                   success |-> res.success]
  /\ UNCHANGED <<queue, remote, isOnline, isSignedIn, googleConnected,
                 syncSetting, pullAll, isFlushing, hasSynced, timers, cyc, now,
                 ctr, autoRuns>>

\* the caller has taken the result
ImportReturn ==
  /\ op.pc = "imported"
  /\ op' = IdleOp
  /\ UNCHANGED <<tasks, queue, remote, isOnline, isSignedIn, googleConnected,
                 syncSetting, pullAll, isFlushing, hasSynced, timers, cyc, now,
                 ctr, autoRuns>>

NextImport ==
  \/ CreateTask
  \/ Commit
  \/ ImportTasks
  \/ ImportReturn
  \/ Tick

SpecImport == InitMarked /\ [][NextImport]_vars

Imported == op.pc = "imported"

ImportStep == op.pc = "idle" /\ op'.pc = "imported"

\* the list an import of these elements leaves: one task per element, in
\* order, a missing timestamp set to the current time
ListOf(items) ==
  /\ Len(tasks) = Len(items)
  /\ \A i \in 1..Len(items) :
       /\ tasks[i].id = items[i].id
       /\ tasks[i].created_at =
            IF items[i].created_at = <<>> THEN now ELSE items[i].created_at[1]
       /\ tasks[i].updated_at =
            IF items[i].updated_at = <<>> THEN now ELSE items[i].updated_at[1]

\* C25: importing a valid JSON array replaces the whole task list with the
\* imported tasks, a missing creation or last-modified timestamp set to the
\* current time; importing content that is not valid JSON or not an array
\* returns a failure result and leaves the task list unchanged.
C25_Import ==
  [][ImportStep =>
       IF op'.file.kind = "array"
         THEN op'.success /\ ListOf(op.file.items)'
         ELSE ~op'.success /\ tasks' = tasks]_vars

\* C25, amended: importing a JSON array whose elements are all objects
\* replaces the whole task list with the imported tasks, a missing timestamp
\* set to the current time; importing any other content (not JSON, not an
\* array, or an array with a null element) returns a failure result and
\* leaves the task list unchanged.
C25_ImportObjects ==
  [][ImportStep =>
       IF Parses(op'.file)
         THEN op'.success /\ ListOf(op.file.items)'
         ELSE ~op'.success /\ tasks' = tasks]_vars

C25_Witness ==
  /\ Imported
  /\ op.success
  /\ Len(op.task) > 0
  /\ Len(tasks) = MaxImport
  /\ \E i \in 1..Len(tasks) :
       op.file.items[i].created_at = <<>> /\ op.file.items[i].updated_at # <<>>

Total(counts) == counts.processed + counts.retrying + counts.dropped

\* C26: in a flush the three counts add up to the items of the snapshot
\* handled so far, all of them when the flush returns; an item counted as
\* processed or dropped is absent from the queue afterwards, an item counted
\* as retrying is still queued with its retry counter increased by exactly
\* one, its last error recorded and its timestamp refreshed; a failed item is
\* never counted as processed.
C26_Counts ==
  [][\A c \in Cycles :
       LET item == cyc[c].snap[cyc[c].idx]
           r == cyc'[c].result
           before == cyc[c].counts
           after == cyc'[c].counts
       IN HandlesItem(c) =>
            /\ Total(after) = cyc[c].idx
            /\ cyc'[c].pc = "refresh" => Total(after) = Len(cyc[c].snap)
            /\ ~r.success => after.processed = before.processed
            /\ (after.processed > before.processed
                  \/ after.dropped > before.dropped)
                 => item.id \notin QueueIds(queue')
            /\ after.retrying > before.retrying =>
                 \E i \in 1..Len(queue') :
                   /\ queue'[i].id = item.id
                   /\ queue'[i].retryCount = item.retryCount + 1
                   /\ queue'[i].lastError = r.message
                   /\ queue'[i].timestamp = now]_vars

\* the flushes a queued item can still go through before it leaves the queue
FlushesLeft(item) == MAX_SYNC_RETRIES - item.retryCount

\* C27: repeated flushes empty the queue: a queued item has at least one and
\* at most MAX_SYNC_RETRIES flushes left; a flush handles every item of its
\* snapshot, and handling an item that is still queued, whatever the remote
\* answers, either removes it or leaves it with exactly one flush less; no
\* other step gives a queued item a flush more.
C27_BoundedRetries ==
  [][/\ \A i \in 1..Len(queue') : FlushesLeft(queue'[i]) \in 1..MAX_SYNC_RETRIES
     /\ \A i \in 1..Len(queue), j \in 1..Len(queue') :
          queue'[j].id = queue[i].id =>
            FlushesLeft(queue'[j]) <= FlushesLeft(queue[i])
     /\ \A c \in Cycles :
          LET item == cyc[c].snap[cyc[c].idx] IN
            /\ cyc'[c].pc = "refresh" => cyc'[c].idx = Len(cyc'[c].snap)
            /\ (HandlesItem(c) /\ item \in {queue[i] : i \in 1..Len(queue)}) =>
                 \A j \in 1..Len(queue') :
                   queue'[j].id = item.id =>
                     FlushesLeft(queue'[j]) = FlushesLeft(item) - 1]_vars

\* C27 witness: an item that had stayed queued through two flushes is handled
\* by a third one, which succeeds, and the queue is empty.
C27_Witness ==
  \E c \in Cycles :
    /\ cyc[c].pc = "refresh"
    /\ Len(cyc[c].snap) = 1
    /\ cyc[c].snap[1].retryCount = MAX_SYNC_RETRIES - 1
    /\ cyc[c].result.success
    /\ queue = <<>>

\* ------------------------------------------------------------ stored queue
\* A session that starts with a queue left in the durable store: its items
\* are any the item type allows, snapshot and remote identifier present or not
MaxStored == 2   \* items the durable queue holds at the start

StoredTask(id, eventId) ==
  [id |-> id, ver |-> 0, completed |-> FALSE, gcalEventId |-> eventId,
   syncedWithGCal |-> eventId # 0, created_at |-> 0, updated_at |-> 0,
   origin |-> "local"]

StoredItems(id) ==
  {[id |-> id, operation |-> operation, taskId |-> id,
    taskData |-> IF snapshot THEN <<StoredTask(id, eventId)>> ELSE <<>>,
    gcalEventId |-> eventId, timestamp |-> 0, retryCount |-> 0,
    lastError |-> ""] :
     operation \in {"create", "update", "delete"}, snapshot \in BOOLEAN,
     eventId \in {0, id}}

StoredQueues ==
  {q \in UNION {[1..n -> UNION {StoredItems(id) : id \in 1..MaxStored}] :
                  n \in 1..MaxStored} :
     \A i \in 1..Len(q) : q[i].id = i}

InitStored ==
  /\ tasks = <<>>
  /\ queue \in StoredQueues
  /\ remote = {}
  /\ isOnline = TRUE
  /\ isSignedIn = TRUE
  /\ googleConnected = TRUE
  /\ syncSetting = TRUE
  /\ pullAll = FALSE
  /\ isFlushing = FALSE
  /\ hasSynced = TRUE
  /\ timers = 1
  /\ cyc = [c \in Cycles |-> IdleCycle]
  /\ op = IdleOp
  /\ now = 1
  /\ ctr = [task |-> 0, item |-> Len(queue), event |-> 0, ver |-> 0]
  /\ autoRuns = 0

NextStored == SyncNow \/ CycleStep

SpecStored == InitStored /\ [][NextStored]_vars

\* C28: a queued create without a task snapshot, a queued update without a
\* task snapshot or without a remote identifier, and a queued delete without
\* a remote identifier are handled without any remote call: the remote
\* calendar is left as it is, the item is removed from the queue and counted
\* as processed.
C28_VacuousItems ==
  [][\A c \in Cycles :
       LET item == cyc[c].snap[cyc[c].idx] IN
         (/\ HandlesItem(c)
          /\ \/ item.operation = "create" /\ item.taskData = <<>>
             \/ item.operation = "update" /\ item.taskData = <<>>
             \/ item.operation = "update" /\ item.gcalEventId = 0
             \/ item.operation = "delete" /\ item.gcalEventId = 0)
           => /\ cyc'[c].resp = NoCall
              /\ remote' = remote
              /\ cyc'[c].result.success
              /\ cyc'[c].counts = [cyc[c].counts EXCEPT !.processed = @ + 1]
              /\ item.id \notin QueueIds(queue')]_vars

\* C28 witness: a flush of two stored items, an update with a snapshot but
\* without remote identifier and a delete without remote identifier, has
\* counted both as processed without a call and the queue is empty.
C28_Witness ==
  \E c \in Cycles :
    /\ cyc[c].pc = "refresh"
    /\ Len(cyc[c].snap) = 2
    /\ cyc[c].snap[1].operation = "update" /\ cyc[c].snap[1].taskData # <<>>
    /\ cyc[c].snap[1].gcalEventId = 0
    /\ cyc[c].snap[2].operation = "delete" /\ cyc[c].snap[2].gcalEventId = 0
    /\ cyc[c].counts.processed = 2
    /\ cyc[c].resp = NoCall
    /\ remote = {}
    /\ queue = <<>>

\* C29: when the flush ends with a queued create that succeeded with an
\* event identifier, the task of the Task Store with the item's task
\* identifier carries that event identifier and is marked mirrored; if the
\* store holds no such task, the flush adds none; a flush that processed no
\* item does not write the Task Store.
C29_BatchUpdate ==
  [][\A c \in Cycles :
       LET item == cyc[c].snap[cyc[c].idx]
           r == cyc'[c].result
       IN (HandlesItem(c) /\ cyc'[c].pc = "refresh") =>
            /\ (item.operation = "create" /\ r.success /\ r.eventId # 0) =>
                 /\ TaskIds(tasks') \subseteq TaskIds(tasks)
                 /\ \A i \in 1..Len(tasks) :
                      tasks[i].id = item.taskId =>
                        \E j \in 1..Len(tasks') :
                          /\ tasks'[j].id = item.taskId
                          /\ tasks'[j].gcalEventId = r.eventId
                          /\ tasks'[j].syncedWithGCal
            /\ cyc'[c].counts.processed = 0 => tasks' = tasks]_vars

\* ------------------------------------------------------------ storage failure
\* A session whose queue storage can fail at any write of a flush
NextThrow ==
  \/ SyncNow
  \/ CycleStep
  \/ \E c \in Cycles : FlushItemThrows(c)

SpecThrow == InitStored /\ [][NextThrow]_vars

\* C30: an exception while one queue item is processed skips only that item:
\* the step that handles an item without counting it leaves the queue as it
\* was and goes on to the next item of the snapshot, or to the end of the
\* flush after the last one; the flush returns its counts and clears its
\* in-progress flag.
C30_ExceptionSkipsItem ==
  [][\A c \in Cycles :
       /\ (HandlesItem(c) /\ cyc'[c].counts = cyc[c].counts) =>
            /\ queue' = queue
            /\ IF cyc[c].idx < Len(cyc[c].snap)
                 THEN /\ cyc'[c].pc = "item"
                      /\ cyc'[c].idx = cyc[c].idx + 1
                      /\ cyc'[c].snap = cyc[c].snap
                 ELSE cyc'[c].pc = "refresh"
       /\ (cyc[c].pc = "refresh" /\ cyc'[c] # cyc[c]) =>
            /\ cyc'[c].flushed = <<cyc[c].counts>>
            /\ ~isFlushing']_vars

\* C30 witness: in a flush of two items the queue write for the first has
\* thrown; the second was processed and removed, the first is still queued as
\* it was, and the flush has returned one processed item.
C30_Witness ==
  \E c \in Cycles :
    /\ cyc[c].flushed = <<[processed |-> 1, retrying |-> 0, dropped |-> 0]>>
    /\ Len(queue) = 1
    /\ queue[1].id = 1
    /\ queue[1].retryCount = 0
    /\ ctr.item = 2
    /\ ~isFlushing

\* ------------------------------------------------------------ foreign events
\* Pulls from a calendar that other applications write to as well, with
\* "pull all events" on or off
InitForeign == Init /\ isOnline = TRUE

NextForeign ==
  \/ CreateTask
  \/ Commit
  \/ \E e \in remote : RemoteEdit(e)
  \/ ForeignEvent
  \/ \E e \in remote : RemoteCancel(e)
  \/ Tick
  \/ SyncNow
  \/ CycleStep

SpecForeign == InitForeign /\ [][NextForeign]_vars

\* the fetched events of cycle c that no task of the store is linked to
Unmatched(c) ==
  {k \in 1..Len(cyc[c].events) :
     \A i \in 1..Len(tasks) : tasks[i].gcalEventId # cyc[c].events[k].gcalEventId}

\* C31: for a fetched remote event whose identifier matches no local task,
\* the merge appends exactly one new task with a fresh local identifier,
\* that remote identifier, the mirrored flag set and the remote's
\* last-modified time as its own; the count the pull returns is the number
\* of tasks overwritten plus the number of tasks created.
C31_PullCreates ==
  [][\A c \in Cycles : MergesPull(c) =>
       LET evs == cyc[c].events
           overwritten == {i \in 1..Len(tasks) : tasks'[i] # tasks[i]}
       IN /\ Len(tasks') = Len(tasks) + Cardinality(Unmatched(c))
          /\ \A k \in Unmatched(c) :
               LET made == {j \in 1..Len(tasks') :
                              tasks'[j].gcalEventId = evs[k].gcalEventId}
               IN /\ Cardinality(made) = 1
                  /\ \A j \in made :
                       /\ j > Len(tasks)
                       /\ tasks'[j].id \notin TaskIds(tasks)
                       /\ \A i \in 1..Len(tasks') :
                            tasks'[i].id = tasks'[j].id => i = j
                       /\ tasks'[j].syncedWithGCal
                       /\ tasks'[j].updated_at = evs[k].gcalUpdated
          /\ cyc'[c].pulled =
               <<Cardinality(overwritten) + Cardinality(Unmatched(c))>>]_vars

\* C31 witness: a pull has returned 2: it overwrote the task of an event
\* edited in the calendar and made a task for an event of another
\* application.
C31_Witness ==
  \E c \in Cycles :
    /\ cyc[c].pc = "finish"
    /\ cyc[c].pulled = <<2>>
    /\ Len(tasks) = 2
    /\ tasks[1].origin = "local" /\ tasks[1].ver = 1
    /\ tasks[2].origin = "pulled" /\ tasks[2].syncedWithGCal
    /\ \E e \in remote :
         e.id = tasks[2].gcalEventId /\ ~e.marked /\ e.updated = tasks[2].updated_at

\* the remote identifiers of a sequence of fetched events
EventIds(evs) == {evs[k].gcalEventId : k \in 1..Len(evs)}

\* C32: a pull neither creates nor modifies a task from a cancelled event
\* nor, unless "pull all events" is on, from an event without the marker:
\* such events are not among the fetched ones, and the merge creates and
\* modifies tasks of fetched events only; with "pull all events" on, the
\* events without the marker are fetched and each has a task after the merge.
C32_PullFilters ==
  [][\A c \in Cycles :
       /\ FetchStep(c) =>
            \A e \in remote :
              /\ (e.cancelled \/ (~e.marked /\ ~cyc[c].pullAll)) =>
                   e.id \notin EventIds(cyc'[c].events)
              /\ (/\ cyc'[c].pc = "merge"
                  /\ cyc[c].pullAll /\ ~e.marked /\ ~e.cancelled) =>
                   e.id \in EventIds(cyc'[c].events)
       /\ MergesPull(c) =>
            /\ \A j \in 1..Len(tasks') :
                 (j > Len(tasks) \/ tasks'[j] # tasks[j]) =>
                   tasks'[j].gcalEventId \in EventIds(cyc[c].events)
            /\ \A id \in EventIds(cyc[c].events) :
                 \E j \in 1..Len(tasks') : tasks'[j].gcalEventId = id]_vars

\* C32 witness: with "pull all events" on, a pull has made a task for the
\* event of another application, while the task of an event cancelled in the
\* calendar is as its owner left it.
C32_Witness ==
  \E c \in Cycles :
    /\ pullAll
    /\ cyc[c].pc = "finish"
    /\ cyc[c].pulled = <<1>>
    /\ Len(tasks) = 2
    /\ \E e \in remote :
         /\ e.cancelled /\ e.id = tasks[1].gcalEventId
         /\ e.updated > tasks[1].updated_at
    /\ \E e \in remote : ~e.marked /\ e.id = tasks[2].gcalEventId

\* C33: a change made to the Task Store while a flush is suspended is still
\* there after the flush's batch update: the step of a flush leaves the list
\* with the same tasks in the same places, each as it was except for its
\* remote identifier and mirrored flag.
C33_FlushKeepsChanges ==
  [][\A c \in Cycles : HandlesItem(c) =>
       /\ Len(tasks') = Len(tasks)
       /\ \A i \in 1..Len(tasks) :
            [tasks'[i] EXCEPT !.gcalEventId = tasks[i].gcalEventId,
                              !.syncedWithGCal = tasks[i].syncedWithGCal]
              = tasks[i]]_vars

\* ------------------------------------------------------------ conflicting edits
\* A task is edited locally while its event is changed in the calendar
NextConflict ==
  \/ CreateTask
  \/ Commit
  \/ \E i \in 1..Len(tasks) : EditTask(i)
  \/ \E e \in remote : RemoteMark(e)
  \/ Tick
  \/ \E b \in BOOLEAN : SetOnline(b)
  \/ SyncNow
  \/ CycleStep

SpecConflict == InitMarked /\ [][NextConflict]_vars

\* C34: the older local edit does not overwrite the newer remote edit: when
\* a flush pushes a queued update that was enqueued at t1 and the event was
\* last modified in the calendar at t2 > t1, the event is left as it is.
C34_NewerRemoteSurvives ==
  [][\A c \in Cycles :
       LET item == cyc[c].snap[cyc[c].idx] IN
         (HandlesItem(c) /\ item.operation = "update" /\ item.retryCount = 0) =>
           \A e \in remote :
             (e.id = item.gcalEventId /\ e.updated > item.timestamp) =>
               e \in remote']_vars

\* C35: an operation enqueued during a flush in place of an item of the
\* flush's snapshot is not lost: the step that handles the replaced item,
\* whether its attempt succeeded, was dropped or is to be retried, leaves
\* every other item of the queue, the newer one included, as it was.
C35_NewerItemKept ==
  [][\A c \in Cycles :
       LET item == cyc[c].snap[cyc[c].idx] IN
         HandlesItem(c) =>
           \A i \in 1..Len(queue) :
             queue[i].id # item.id =>
               \E j \in 1..Len(queue') : queue'[j] = queue[i]]_vars

\* C35 witness: a flush has handled, with a retryable failure, an update
\* that a newer update of the same task had replaced in the queue meanwhile;
\* the newer item is queued, untouched.
C35_Witness ==
  \E c \in Cycles :
    /\ cyc[c].pc = "refresh"
    /\ Len(cyc[c].snap) = 1
    /\ cyc[c].snap[1].operation = "update"
    /\ ~cyc[c].result.success /\ cyc[c].result.retryable
    /\ Len(queue) = 1
    /\ queue[1].taskId = cyc[c].snap[1].taskId
    /\ queue[1].id # cyc[c].snap[1].id
    /\ queue[1].retryCount = 0

\* ------------------------------------------------------------ the flag
\* Both triggers at work, with a queue storage whose read can fail
NextFlag ==
  \/ CreateTask
  \/ Commit
  \/ SyncNow
  \/ AutoSync
  \/ CycleStep
  \/ \E c \in Cycles : FlushGetQueueThrows(c)
  \/ \E b \in BOOLEAN : SetOnline(b)

SpecFlag == InitMarked /\ [][NextFlag]_vars

\* C36: the in-progress flag is cleared whenever a flush ends, by normal
\* completion, by the return on an empty queue or by an exception reading
\* the queue: once no flush is running the flag is clear, and a flushQueue
\* entered then with sync permitted is not rejected but reads the queue.
C36_FlagCleared ==
  [][/\ (\A c \in Cycles : cyc'[c].pc \notin FlushPcs) => ~isFlushing'
     /\ \A c \in Cycles :
          (/\ Enters(c)
           /\ \A d \in Cycles : cyc[d].pc \notin FlushPcs
           /\ canSync) =>
            cyc'[c].pc = "getQueue" /\ isFlushing']_vars

\* C36 witness: the flush of one cycle ended on an exception reading the
\* queue, and the flush the other cycle entered afterwards is running.
C36_Witness ==
  \E c, d \in Cycles :
    /\ cyc[d].pc = "finish"
    /\ cyc[d].flushed = <<>>
    /\ cyc[c].pc = "item"
    /\ isFlushing

\* C37: every item in the queue has a retry counter in
\* 0..MAX_SYNC_RETRIES-1: an item enters the queue with counter 0, the
\* counter of a queued item changes only when a flush handles the item and
\* its attempt fails retryably, and then by exactly one, and an item whose
\* counter would reach MAX_SYNC_RETRIES is removed instead.
C37_RetryCounterRange ==
  [][/\ \A j \in 1..Len(queue') :
          /\ queue'[j].retryCount \in 0..(MAX_SYNC_RETRIES - 1)
          /\ queue'[j].id \notin QueueIds(queue) => queue'[j].retryCount = 0
          /\ \A i \in 1..Len(queue) :
               (queue[i].id = queue'[j].id
                  /\ queue'[j].retryCount # queue[i].retryCount) =>
                 /\ queue'[j].retryCount = queue[i].retryCount + 1
                 /\ \E c \in Cycles :
                      /\ HandlesItem(c)
                      /\ cyc[c].snap[cyc[c].idx].id = queue[i].id
                      /\ ~cyc'[c].result.success /\ cyc'[c].result.retryable
     /\ \A c \in Cycles :
          LET item == cyc[c].snap[cyc[c].idx] IN
            (/\ HandlesItem(c)
             /\ ~cyc'[c].result.success
             /\ item.retryCount + 1 = MAX_SYNC_RETRIES) =>
              item.id \notin QueueIds(queue')]_vars

\* C37 witness: a queued item has failed retryably in two flushes and waits
\* with counter MAX_SYNC_RETRIES - 1, next to an item just enqueued.
C37_Witness ==
  /\ Len(queue) = 2
  /\ queue[1].retryCount = MAX_SYNC_RETRIES - 1
  /\ queue[1].lastError # ""
  /\ queue[2].retryCount = 0
  /\ \A c \in Cycles : cyc[c].pc \notin FlushPcs

\* C38: pull is idempotent: when every event of the calendar carries a
\* last-modified time and the listing is still the one the pull fetched, a
\* second merge of that listing into the task list the pull has left changes
\* no task, adds no task and counts 0.
C38_PullIdempotent ==
  [][\A c \in Cycles :
       (/\ MergesPull(c)
        /\ \A e \in remote : e.updated # 0
        /\ fetchEvents(cyc[c].pullAll) = cyc[c].events) =>
         LET again == Merge([ts |-> tasks', count |-> 0, next |-> ctr'.task],
                            cyc[c].events, 1)
         IN again.count = 0 /\ again.ts = tasks' /\ again.next = ctr'.task]_vars

\* C38 witness: a pull that fetched a listing with an event of another
\* application, for which an earlier pull had made a task, has returned 0.
C38_Witness ==
  \E c \in Cycles :
    /\ cyc[c].pc = "finish"
    /\ cyc[c].resp.kind = "http" /\ cyc[c].resp.status = 200
    /\ cyc[c].pulled = <<0>>
    /\ pullAll
    /\ \A e \in remote : e.updated # 0 /\ ~e.cancelled
    /\ \E i \in 1..Len(tasks) :
         /\ tasks[i].origin = "pulled"
         /\ \E e \in remote : e.id = tasks[i].gcalEventId /\ ~e.marked

\* C39: when a pull overwrites a matched task, the task keeps its local
\* identifier, its remote identifier, its mirrored flag and its creation
\* time; a task is changed only if a fetched event with its remote
\* identifier is strictly newer than it, every other task is left as it was.
C39_PullFrame ==
  [][\A c \in Cycles : MergesPull(c) =>
       \A i \in 1..Len(tasks) :
         /\ tasks'[i].id = tasks[i].id
         /\ tasks'[i].gcalEventId = tasks[i].gcalEventId
         /\ tasks'[i].syncedWithGCal = tasks[i].syncedWithGCal
         /\ tasks'[i].created_at = tasks[i].created_at
         /\ tasks'[i] # tasks[i] =>
              \E k \in 1..Len(cyc[c].events) :
                /\ cyc[c].events[k].gcalEventId = tasks[i].gcalEventId
                /\ cyc[c].events[k].gcalUpdated > tasks[i].updated_at]_vars

\* C39 witness: a pull has overwritten a task that an earlier pull had made
\* for an event of another application, which was then edited in the
\* calendar; the task has the creation time of the first reading.
C39_Witness ==
  \E c \in Cycles :
    /\ cyc[c].pc = "finish"
    /\ cyc[c].pulled = <<1>>
    /\ Len(tasks) = 1
    /\ tasks[1].origin = "pulled"
    /\ tasks[1].ver = 1
    /\ tasks[1].syncedWithGCal
    /\ tasks[1].created_at < tasks[1].updated_at
    /\ tasks[1].created_at < now

\* Debounce: the durable queue holds items of an earlier session while
\* connectivity and the sync setting change; the only cycles are the
\* automatic ones. A pending timeout is fired by the runtime once its delay
\* has passed, and an awaited call of a running cycle settles.
NextDebounce ==
  \/ AutoSync
  \/ CycleStep
  \/ \E b \in BOOLEAN : SetOnline(b)
  \/ \E b \in BOOLEAN : SetSyncSetting(b)

FairDebounce == WF_vars(AutoSync) /\ WF_vars(CycleStep)

SpecDebounce == InitStored /\ [][NextDebounce]_vars /\ FairDebounce

\* C40: while the state is online and permitted, the timeout of this entry
\* is pending or its one cycle has started, and if the state is not left the
\* cycle does start; a step that leaves the state clears the timeout, and a
\* cycle starts only from a pending timeout, in the state.
C40_Debounce ==
  /\ []((isOnline /\ canSync) => timers + autoRuns = 1)
  /\ [][(isOnline /\ canSync) /\ ~(isOnline /\ canSync)' => timers' = 0]_vars
  /\ [][autoRuns' = autoRuns + 1 =>
          timers = 1 /\ isOnline /\ canSync /\ (isOnline /\ canSync)']_vars
  /\ (isOnline /\ canSync /\ timers = 1)
       ~> (autoRuns = 1 \/ ~(isOnline /\ canSync))

\* C40 witness: the device went offline and came online again; the timeout
\* of that entry has fired and its cycle is about to read the queue, which
\* an earlier cycle has shortened.
C40_Witness ==
  /\ isOnline /\ canSync
  /\ timers = 0
  /\ autoRuns = 1
  /\ remote # {}
  /\ queue # <<>>
  /\ cyc["auto"].pc = "getQueue"
====
